---- MODULE Spec2Model ----
(***************************************************************************)
(* Grid ledger and fill-settlement engine of the gridsol program.          *)
(*                                                                         *)
(* The persisted accounts (Config, Grid records) and the token balances    *)
(* are the state; every instruction handler of processor.rs is an operator *)
(* that maps (state, inputs) to a result record carrying the error code    *)
(* and the accounts as the handler leaves them; one action per instruction *)
(* submits it as a transaction.                                            *)
(*                                                                         *)
(* Slot indices are the 0-based indices of the source; the per-slot        *)
(* vectors are sequences, so slot idx lives at position idx + 1.           *)
(*                                                                         *)
(* The amounts the handlers move stay far below 2^64, so the overflow       *)
(* branch of checked_add / checked_mul / u64::try_from is never taken      *)
(* there; the underflow branch of checked_sub is modelled.  split_fee is   *)
(* modelled on full 64-bit words, saturation included.                     *)
(*                                                                         *)
(* Every account is as long as its serialised record, so read_state        *)
(* decodes what write_state wrote; all grids have the same ladder lengths. *)
(***************************************************************************)
EXTENDS Integers, Sequences, FiniteSets, TLC

\* ------------------------------------------------------------------------
\* constants.rs.  The unit tests fix the first three: a Geometry ladder of ratio
\* 1.1e9 steps 1e9 -> 1.1e9 -> 1.21e9, calc_fee_u64(10000, 100) = 100, and
\* split_fee clips a protocol share of 5000 bps to 1000.  MAX_FEE_BPS and
\* MAX_ORDERS_PER_SIDE are not fixed by the sources at hand: the tests configure
\* fees of 1000 bps and build ladders of 3 slots, so they are at least that.
\* ------------------------------------------------------------------------
PRICE_SCALE == 1000000000

BPS_DENOMINATOR == 10000

MAX_PROTOCOL_FEE_BPS == 1000

MAX_FEE_BPS == 1000

MAX_ORDERS_PER_SIDE == 3

\* ------------------------------------------------------------------------
\* Bounds of the model
\* ------------------------------------------------------------------------
MaxSteps == 3

OwnerFunds == 400

TakerFunds == 300

Keys == {1, 2}

Users == {"admin", "owner", "taker"}

\* ------------------------------------------------------------------------
\* Arithmetic helpers
\* ------------------------------------------------------------------------
Min(a, b) == IF a <= b THEN a ELSE b

RECURSIVE GCD(_, _)
GCD(a, b) == IF b = 0 THEN a ELSE GCD(b, a % b)

RECURSIVE SumSeq(_)
SumSeq(s) == IF s = <<>> THEN 0 ELSE Head(s) + SumSeq(Tail(s))

\* one step of binary long multiplication: from h = [q, r] with
\* a * (b \div 2) = h.q * d + h.r to [q, r] with a * b = q * d + r, 0 <= r < d;
\* x is a when b is odd and 0 otherwise, and no intermediate value exceeds d
StepQR(h, x, d) ==
    IF h.r >= d - h.r
    THEN IF h.r - (d - h.r) >= d - x
         THEN [q |-> 2 * h.q + 2, r |-> (h.r - (d - h.r)) - (d - x)]
         ELSE [q |-> 2 * h.q + 1, r |-> (h.r - (d - h.r)) + x]
    ELSE IF 2 * h.r >= d - x
         THEN [q |-> 2 * h.q + 1, r |-> 2 * h.r - (d - x)]
         ELSE [q |-> 2 * h.q, r |-> 2 * h.r + x]

\* quotient and remainder of a * b by d, for 0 <= a < d
RECURSIVE MulDivQR(_, _, _)
MulDivQR(a, b, d) ==
    IF b = 0 THEN [q |-> 0, r |-> 0]
    ELSE StepQR(MulDivQR(a, b \div 2, d), IF b % 2 = 1 THEN a ELSE 0, d)

\* floor(a1 * b1 / d2): directly when the product stays inside the range of the
\* model checker's integers, by long multiplication otherwise
FloorOfProduct(a1, b1, d2) ==
    IF a1 = 0 \/ b1 <= 2147483647 \div a1 THEN (a1 * b1) \div d2
    ELSE (a1 \div d2) * b1 + MulDivQR(a1 % d2, b1, d2).q

\* floor(a * b / denom), the u128 computation of mul_div_u64.  The quotient is
\* evaluated on the fraction reduced by gcd(b, denom) and
\* gcd(a, denom / gcd(b, denom)), which has the same value.
MulDivFloor(a, b, denom) ==
    LET g1 == GCD(b, denom)
        b1 == b \div g1
        d1 == denom \div g1
        g2 == GCD(a, d1)
    IN  FloorOfProduct(a \div g2, b1, d1 \div g2)

\* mul_div_u64: MathOverflow on denom = 0
mul_div_u64(a, b, denom) ==
    IF denom = 0 THEN [err |-> "MathOverflow", val |-> 0]
    ELSE [err |-> "Ok", val |-> MulDivFloor(a, b, denom)]

calc_fee_u64(amount, fee_bps) == (amount * fee_bps) \div BPS_DENOMINATOR

sum_u64_slice(values) == SumSeq(values)

\* ------------------------------------------------------------------------
\* 64-bit words.  A u64 is the sequence of its 8 little-endian bytes, so the
\* full range of the type is at hand; the operators below are the saturating
\* and plain u64 operations split_fee uses.
\* ------------------------------------------------------------------------
BYTE == 256

U64_BYTES == 8

U64_MAX == [i \in 1..U64_BYTES |-> BYTE - 1]

RECURSIVE to_le_bytes_n(_, _)
to_le_bytes_n(v, n) ==
    IF n = 0 THEN <<>> ELSE <<v % BYTE>> \o to_le_bytes_n(v \div BYTE, n - 1)

to_le_bytes(v) == to_le_bytes_n(v, U64_BYTES)

\* the value of a word below 2^31
from_le_bytes(x) == x[1] + BYTE * (x[2] + BYTE * (x[3] + BYTE * x[4]))

\* x * s + carry with as many bytes as the product needs, at least Len(x)
RECURSIVE mul_bytes(_, _, _)
mul_bytes(x, s, carry) ==
    IF x = <<>>
    THEN IF carry = 0 THEN <<>>
         ELSE <<carry % BYTE>> \o mul_bytes(<<>>, s, carry \div BYTE)
    ELSE LET k(c) == <<c % BYTE>> \o mul_bytes(Tail(x), s, c \div BYTE)
         IN  k(Head(x) * s + carry)

\* u64::saturating_mul by a factor below 2^16
saturating_mul(x, s) ==
    LET k(m) == IF Len(m) > U64_BYTES THEN U64_MAX ELSE m
    IN  k(mul_bytes(x, s, 0))

\* quotient and remainder of x by a divisor below 2^16
RECURSIVE div_bytes(_, _)
div_bytes(x, d) ==
    IF x = <<>> THEN [q |-> <<>>, r |-> 0]
    ELSE LET k(hi) == [q |-> <<(hi.r * BYTE + Head(x)) \div d>> \o hi.q,
                       r |-> (hi.r * BYTE + Head(x)) % d]
         IN  k(div_bytes(Tail(x), d))

\* x < y for words of the same length
RECURSIVE less_bytes(_, _)
less_bytes(x, y) ==
    IF x = <<>> THEN FALSE
    ELSE IF x[Len(x)] # y[Len(y)] THEN x[Len(x)] < y[Len(y)]
    ELSE less_bytes(SubSeq(x, 1, Len(x) - 1), SubSeq(y, 1, Len(y) - 1))

\* x - y - borrow for x >= y + borrow
RECURSIVE sub_bytes(_, _, _)
sub_bytes(x, y, borrow) ==
    IF x = <<>> THEN <<>>
    ELSE LET k(c) == IF c < 0 THEN <<c + BYTE>> \o sub_bytes(Tail(x), Tail(y), 1)
                     ELSE <<c>> \o sub_bytes(Tail(x), Tail(y), 0)
         IN  k(Head(x) - Head(y) - borrow)

\* u64::saturating_sub
saturating_sub(x, y) ==
    IF less_bytes(x, y) THEN to_le_bytes(0) ELSE sub_bytes(x, y, 0)

\* split_fee without the clamp of the share to MAX_PROTOCOL_FEE_BPS
split_fee_u64_unclamped(total_fee, protocol_fee_bps, oneshot_protocol_fee_bps, oneshot) ==
    LET protocol_share_bps == IF oneshot THEN oneshot_protocol_fee_bps ELSE protocol_fee_bps
        k(protocol_fee) == <<protocol_fee, saturating_sub(total_fee, protocol_fee)>>
    IN  k(div_bytes(saturating_mul(total_fee, protocol_share_bps), 10000).q)

\* split_fee on u64 words: returns <<protocol_fee, maker_fee>>
split_fee_u64(total_fee, protocol_fee_bps, oneshot_protocol_fee_bps, oneshot) ==
    LET protocol_share_bps ==
            IF oneshot THEN Min(oneshot_protocol_fee_bps, MAX_PROTOCOL_FEE_BPS)
            ELSE Min(protocol_fee_bps, MAX_PROTOCOL_FEE_BPS)
        k(protocol_fee) == <<protocol_fee, saturating_sub(total_fee, protocol_fee)>>
    IN  k(div_bytes(saturating_mul(total_fee, protocol_share_bps), 10000).q)

\* split_fee as the handlers call it, on amounts below 2^31
split_fee(total_fee, protocol_fee_bps, oneshot_protocol_fee_bps, oneshot) ==
    LET k(r) == <<from_le_bytes(r[1]), from_le_bytes(r[2])>>
    IN  k(split_fee_u64(to_le_bytes(total_fee), protocol_fee_bps,
                        oneshot_protocol_fee_bps, oneshot))

\* ------------------------------------------------------------------------
\* Price ladders
\* ------------------------------------------------------------------------
Linear(gap) == [kind |-> "Linear", gap |-> gap, ratio_x1e9 |-> 0]

Geometry(ratio) == [kind |-> "Geometry", gap |-> 0, ratio_x1e9 |-> ratio]

\* One iteration of the loop of build_side_prices: the price of slot i (i >= 1)
\* given the prices pushed so far.
side_price_step(price0, strategy, is_ask, out, i) ==
    LET prev == out[i]
    IN  IF strategy.kind = "Linear"
        THEN IF (is_ask /\ strategy.gap <= 0) \/ (~is_ask /\ strategy.gap >= 0)
             THEN [err |-> "InvalidOrderCount", val |-> 0]
             ELSE LET price_i == price0 + strategy.gap * i
                  IN  IF price_i <= 0 THEN [err |-> "InvalidOrderCount", val |-> 0]
                      ELSE [err |-> "Ok", val |-> price_i]
        ELSE IF (is_ask /\ strategy.ratio_x1e9 <= PRICE_SCALE)
                \/ (~is_ask /\ (strategy.ratio_x1e9 >= PRICE_SCALE \/ strategy.ratio_x1e9 = 0))
             THEN [err |-> "InvalidOrderCount", val |-> 0]
             ELSE mul_div_u64(prev, strategy.ratio_x1e9, PRICE_SCALE)

\* the loop of build_side_prices without the comparison of next with prev
RECURSIVE build_side_prices_loop_unordered(_, _, _, _, _, _)
build_side_prices_loop_unordered(price0, n, strategy, is_ask, out, i) ==
    IF i >= n THEN [err |-> "Ok", prices |-> out]
    ELSE LET next == side_price_step(price0, strategy, is_ask, out, i)
         IN  IF next.err # "Ok" THEN [err |-> next.err, prices |-> <<>>]
             ELSE IF next.val = 0 THEN [err |-> "InvalidOrderCount", prices |-> <<>>]
             ELSE build_side_prices_loop_unordered(price0, n, strategy, is_ask,
                                                   Append(out, next.val), i + 1)

RECURSIVE build_side_prices_loop(_, _, _, _, _, _)
build_side_prices_loop(price0, n, strategy, is_ask, out, i) ==
    IF i >= n THEN [err |-> "Ok", prices |-> out]
    ELSE LET next == side_price_step(price0, strategy, is_ask, out, i)
             prev == out[i]
         IN  IF next.err # "Ok" THEN [err |-> next.err, prices |-> <<>>]
             ELSE IF next.val = 0 THEN [err |-> "InvalidOrderCount", prices |-> <<>>]
             ELSE IF (is_ask /\ next.val <= prev) \/ (~is_ask /\ next.val >= prev)
                  THEN [err |-> "InvalidOrderCount", prices |-> <<>>]
             ELSE build_side_prices_loop(price0, n, strategy, is_ask, Append(out, next.val), i + 1)

build_side_prices(price0, count, strategy, is_ask) ==
    IF count = 0 THEN [err |-> "Ok", prices |-> <<>>]
    ELSE IF count > MAX_ORDERS_PER_SIDE \/ price0 = 0
         THEN [err |-> "InvalidOrderCount", prices |-> <<>>]
    ELSE build_side_prices_loop(price0, count, strategy, is_ask, <<price0>>, 1)

\* reverse_price_step whose Geometry slot 0 is one step after price0
reverse_price_step_forward_ratio(price0, strategy, is_ask, side_prices, i) ==
    IF strategy.kind = "Linear"
    THEN IF (is_ask /\ strategy.gap <= 0) \/ (~is_ask /\ strategy.gap >= 0)
         THEN [err |-> "InvalidOrderCount", val |-> 0]
         ELSE IF i = 0
              THEN LET v == price0 - strategy.gap
                   IN  IF v <= 0 THEN [err |-> "InvalidOrderCount", val |-> 0]
                       ELSE [err |-> "Ok", val |-> v]
              ELSE [err |-> "Ok", val |-> side_prices[i]]
    ELSE IF strategy.ratio_x1e9 = 0
         THEN [err |-> "InvalidOrderCount", val |-> 0]
         ELSE IF i = 0
              THEN mul_div_u64(price0, strategy.ratio_x1e9, PRICE_SCALE)
              ELSE [err |-> "Ok", val |-> side_prices[i]]

\* The reverse price of slot i (0-based) of build_side_reverse_prices.
reverse_price_step(price0, strategy, is_ask, side_prices, i) ==
    IF strategy.kind = "Linear"
    THEN IF (is_ask /\ strategy.gap <= 0) \/ (~is_ask /\ strategy.gap >= 0)
         THEN [err |-> "InvalidOrderCount", val |-> 0]
         ELSE IF i = 0
              THEN LET v == price0 - strategy.gap
                   IN  IF v <= 0 THEN [err |-> "InvalidOrderCount", val |-> 0]
                       ELSE [err |-> "Ok", val |-> v]
              ELSE [err |-> "Ok", val |-> side_prices[i]]
    ELSE IF strategy.ratio_x1e9 = 0
         THEN [err |-> "InvalidOrderCount", val |-> 0]
         ELSE IF i = 0
              THEN mul_div_u64(price0, PRICE_SCALE, strategy.ratio_x1e9)
              ELSE [err |-> "Ok", val |-> side_prices[i]]

RECURSIVE build_side_reverse_prices_loop(_, _, _, _, _, _, _)
build_side_reverse_prices_loop(price0, n, strategy, is_ask, side_prices, out, i) ==
    IF i >= n THEN [err |-> "Ok", prices |-> out]
    ELSE LET rp == reverse_price_step(price0, strategy, is_ask, side_prices, i)
         IN  IF rp.err # "Ok" THEN [err |-> rp.err, prices |-> <<>>]
             ELSE IF rp.val = 0 THEN [err |-> "InvalidOrderCount", prices |-> <<>>]
             ELSE build_side_reverse_prices_loop(price0, n, strategy, is_ask, side_prices,
                                                 Append(out, rp.val), i + 1)

build_side_reverse_prices(price0, count, strategy, is_ask, side_prices) ==
    IF count = 0 THEN [err |-> "Ok", prices |-> <<>>]
    ELSE IF Len(side_prices) # count THEN [err |-> "InvalidOrderCount", prices |-> <<>>]
    ELSE build_side_reverse_prices_loop(price0, count, strategy, is_ask, side_prices, <<>>, 0)

\* ------------------------------------------------------------------------
\* Persisted records (state.rs)
\* ------------------------------------------------------------------------
\* A Grid account that has never been written holds no decodable record.
NoGrid ==
    [written |-> FALSE, owner |-> "", id |-> 0, status |-> 0,
     base_vault |-> 0, quote_vault |-> 0, signer |-> 0,
     fee_bps |-> 0, compound |-> FALSE, oneshot |-> FALSE,
     base_amount_per_order |-> 0, profits_quote |-> 0, protocol_fees_quote |-> 0,
     ask_prices |-> <<>>, ask_rev_prices |-> <<>>,
     ask_remaining |-> <<>>, ask_reverse_quote |-> <<>>,
     bid_prices |-> <<>>, bid_rev_prices |-> <<>>,
     bid_remaining_quote |-> <<>>, bid_reverse_base |-> <<>>]

is_active(grid) == grid.status = 0

can_place(grid) ==
    Len(grid.ask_prices) <= MAX_ORDERS_PER_SIDE /\ Len(grid.bid_prices) <= MAX_ORDERS_PER_SIDE

\* read_state of a Grid account
read_grid(grids, k) ==
    IF grids[k].written THEN [err |-> "Ok", grid |-> grids[k]]
    ELSE [err |-> "InvalidInstruction", grid |-> grids[k]]

\* ------------------------------------------------------------------------
\* Account data (processor.rs read_state / write_state, borsh layout of
\* state.rs).  A record is encoded field by field in declaration order:
\* integers little-endian, a bool as one byte 0 or 1, a 32-byte key as it is,
\* a Vec<u64> as its u32 length followed by its elements.  A key is modelled
\* by 32 bytes all equal to the key's number.  try_from_slice decodes the
\* fields from the front of the slice and fails when a field is cut short,
\* when a bool byte is neither 0 nor 1, or when bytes are left over.
\* ------------------------------------------------------------------------
PUBKEY_BYTES == 32

VEC_LEN_BYTES == 4

Field(name, type) == [name |-> name, type |-> type]

ConfigFields ==
    <<Field("admin", "key"), Field("paused", "bool"), Field("protocol_fee_bps", "u16"),
      Field("oneshot_protocol_fee_bps", "u16"), Field("next_grid_id", "u64")>>

GridFields ==
    <<Field("owner", "key"), Field("id", "u64"), Field("status", "u8"),
      Field("base_vault", "key"), Field("quote_vault", "key"), Field("signer", "key"),
      Field("signer_bump", "u8"), Field("fee_bps", "u16"), Field("compound", "bool"),
      Field("oneshot", "bool"), Field("base_amount_per_order", "u64"),
      Field("profits_quote", "u64"), Field("protocol_fees_quote", "u64"),
      Field("ask_prices", "vec"), Field("ask_rev_prices", "vec"),
      Field("ask_remaining", "vec"), Field("ask_reverse_quote", "vec"),
      Field("bid_prices", "vec"), Field("bid_rev_prices", "vec"),
      Field("bid_remaining_quote", "vec"), Field("bid_reverse_base", "vec")>>

\* number of bytes of a fixed-size field
FieldBytes(type) ==
    IF type = "key" THEN PUBKEY_BYTES
    ELSE IF type = "u64" THEN U64_BYTES
    ELSE IF type = "u16" THEN 2
    ELSE 1

RECURSIVE serialize_vec(_)
serialize_vec(v) ==
    IF v = <<>> THEN <<>> ELSE to_le_bytes(Head(v)) \o serialize_vec(Tail(v))

serialize_field(type, v) ==
    IF type = "key" THEN [i \in 1..PUBKEY_BYTES |-> v]
    ELSE IF type = "bool" THEN <<IF v THEN 1 ELSE 0>>
    ELSE IF type = "vec" THEN to_le_bytes_n(Len(v), VEC_LEN_BYTES) \o serialize_vec(v)
    ELSE to_le_bytes_n(v, FieldBytes(type))

\* borsh::to_vec of the record with the given fields
RECURSIVE to_vec(_, _)
to_vec(fields, record) ==
    IF fields = <<>> THEN <<>>
    ELSE serialize_field(Head(fields).type, record[Head(fields).name])
             \o to_vec(Tail(fields), record)

\* little-endian bytes whose value is below 2^31
FitsInt(x) == \A i \in DOMAIN x : (i = 4 => x[i] < BYTE \div 2) /\ (i > 4 => x[i] = 0)

RECURSIVE le_sum(_)
le_sum(x) == IF x = <<>> THEN 0 ELSE Head(x) + BYTE * le_sum(Tail(x))

\* the value of little-endian bytes; a value of 2^31 or more, which no record
\* of the model holds, is left as its bytes
le_value(x) == IF FitsInt(x) THEN le_sum(SubSeq(x, 1, Min(Len(x), 4))) ELSE x

DecodeFail(s) == [ok |-> FALSE, val |-> 0, rest |-> s]

\* n u64 elements from the front of s
RECURSIVE deserialize_vec(_, _)
deserialize_vec(s, n) ==
    IF n = 0 THEN [ok |-> TRUE, val |-> <<>>, rest |-> s]
    ELSE IF Len(s) < U64_BYTES THEN DecodeFail(s)
    ELSE LET k(r) == IF r.ok
                     THEN [ok |-> TRUE,
                           val |-> <<le_value(SubSeq(s, 1, U64_BYTES))>> \o r.val,
                           rest |-> r.rest]
                     ELSE r
         IN  k(deserialize_vec(SubSeq(s, U64_BYTES + 1, Len(s)), n - 1))

deserialize_field(type, s) ==
    IF type = "vec"
    THEN IF Len(s) < VEC_LEN_BYTES THEN DecodeFail(s)
         ELSE IF ~FitsInt(SubSeq(s, 1, VEC_LEN_BYTES)) THEN DecodeFail(s)
         ELSE deserialize_vec(SubSeq(s, VEC_LEN_BYTES + 1, Len(s)),
                              le_value(SubSeq(s, 1, VEC_LEN_BYTES)))
    ELSE IF Len(s) < FieldBytes(type) THEN DecodeFail(s)
    ELSE IF type = "bool" /\ s[1] > 1 THEN DecodeFail(s)
    ELSE [ok |-> TRUE,
          val |-> IF type = "key" THEN s[1]
                  ELSE IF type = "bool" THEN s[1] = 1
                  ELSE le_value(SubSeq(s, 1, FieldBytes(type))),
          rest |-> SubSeq(s, FieldBytes(type) + 1, Len(s))]

\* BorshDeserialize::deserialize: the fields in order from the front of s;
\* acc holds the fields decoded so far
RECURSIVE deserialize(_, _, _, _)
deserialize(fields, s, acc, i) ==
    IF i > Len(fields) THEN [ok |-> TRUE, val |-> acc, rest |-> s]
    ELSE LET k(f) == IF f.ok
                     THEN deserialize(fields, f.rest,
                                      [n \in DOMAIN acc \cup {fields[i].name} |->
                                          IF n = fields[i].name THEN f.val ELSE acc[n]],
                                      i + 1)
                     ELSE DecodeFail(s)
         IN  k(deserialize_field(fields[i].type, s))

\* T::try_from_slice
try_from_slice(fields, data) ==
    LET k(r) == IF r.ok /\ r.rest = <<>> THEN [err |-> "Ok", val |-> r.val]
                ELSE [err |-> "InvalidInstruction", val |-> <<>>]
    IN  k(deserialize(fields, data, <<>>, 1))

read_state(fields, data) == try_from_slice(fields, data)

\* write_state: the account data afterwards
write_state(fields, data, state) ==
    LET k(out) ==
            IF Len(out) > Len(data) THEN [err |-> "AccountDataTooSmall", data |-> data]
            ELSE [err |-> "Ok",
                  data |-> [i \in 1..Len(data) |-> IF i <= Len(out) THEN out[i] ELSE 0]]
    IN  k(to_vec(fields, state))

\* ------------------------------------------------------------------------
\* Token program: a transfer fails when the source balance is too small.
\* A token account is named by [kind, id]; kind is one of vault_base,
\* vault_quote (id a grid key) or user_base, user_quote (id a user).
\* ------------------------------------------------------------------------
Acct(kind, id) == [kind |-> kind, id |-> id]

Bal(tokens, a) == tokens[a.kind][a.id]

token_transfer(tokens, source, destination, amount) ==
    IF Bal(tokens, source) < amount
    THEN [err |-> "InsufficientFunds", tokens |-> tokens]
    ELSE LET t1 == [tokens EXCEPT ![source.kind][source.id] = @ - amount]
         IN  [err |-> "Ok",
              tokens |-> [t1 EXCEPT ![destination.kind][destination.id] = @ + amount]]

\* ------------------------------------------------------------------------
\* Per-slot bookkeeping of the four fill cases
\* ------------------------------------------------------------------------
\* apply_ask_bookkeeping with the quota forgotten: the credit goes to the
\* reverse slot whole in either mode
apply_ask_bookkeeping_uncapped(grid, idx, fill_base, quote_gross, maker_fee, quota_price) ==
    IF grid.ask_remaining[idx + 1] < fill_base THEN [err |-> "MathOverflow", grid |-> grid]
    ELSE [err |-> "Ok",
          grid |-> [grid EXCEPT !.ask_remaining[idx + 1] = @ - fill_base,
                                !.ask_reverse_quote[idx + 1] = @ + quote_gross + maker_fee]]

\* apply_ask_bookkeeping that compares the balance before the credit only: a
\* slot below its quota takes the whole credit
apply_ask_bookkeeping_pre_credit(grid, idx, fill_base, quote_gross, maker_fee, quota_price) ==
    IF grid.ask_remaining[idx + 1] < fill_base THEN [err |-> "MathOverflow", grid |-> grid]
    ELSE
    LET g1 == [grid EXCEPT !.ask_remaining[idx + 1] = @ - fill_base]
        add_rev == quote_gross + maker_fee
    IN  IF g1.compound
        THEN [err |-> "Ok", grid |-> [g1 EXCEPT !.ask_reverse_quote[idx + 1] = @ + add_rev]]
        ELSE
        LET target_quote == mul_div_u64(g1.base_amount_per_order, quota_price, PRICE_SCALE)
        IN  IF target_quote.err # "Ok" THEN [err |-> target_quote.err, grid |-> g1]
            ELSE IF g1.ask_reverse_quote[idx + 1] >= target_quote.val
            THEN [err |-> "Ok", grid |-> [g1 EXCEPT !.profits_quote = @ + add_rev]]
            ELSE [err |-> "Ok", grid |-> [g1 EXCEPT !.ask_reverse_quote[idx + 1] = @ + add_rev]]

apply_ask_bookkeeping(grid, idx, fill_base, quote_gross, maker_fee, quota_price) ==
    IF grid.ask_remaining[idx + 1] < fill_base THEN [err |-> "MathOverflow", grid |-> grid]
    ELSE
    LET g1 == [grid EXCEPT !.ask_remaining[idx + 1] = @ - fill_base]
        add_rev == quote_gross + maker_fee
    IN  IF g1.compound
        THEN [err |-> "Ok", grid |-> [g1 EXCEPT !.ask_reverse_quote[idx + 1] = @ + add_rev]]
        ELSE
        LET target_quote == mul_div_u64(g1.base_amount_per_order, quota_price, PRICE_SCALE)
            cur_rev == g1.ask_reverse_quote[idx + 1]
            next_rev == cur_rev + add_rev
        IN  IF target_quote.err # "Ok" THEN [err |-> target_quote.err, grid |-> g1]
            ELSE IF cur_rev >= target_quote.val
            THEN [err |-> "Ok", grid |-> [g1 EXCEPT !.profits_quote = @ + add_rev]]
            ELSE IF next_rev > target_quote.val
            THEN [err |-> "Ok",
                  grid |-> [g1 EXCEPT !.ask_reverse_quote[idx + 1] = target_quote.val,
                                      !.profits_quote = @ + (next_rev - target_quote.val)]]
            ELSE [err |-> "Ok", grid |-> [g1 EXCEPT !.ask_reverse_quote[idx + 1] = next_rev]]

\* apply_bid_bookkeeping that books the maker fee as profit in either mode
apply_bid_bookkeeping_fee_to_profits(grid, idx, fill_base, quote_gross, maker_fee) ==
    IF grid.bid_remaining_quote[idx + 1] < quote_gross
    THEN [err |-> "MathOverflow", grid |-> grid]
    ELSE [err |-> "Ok",
          grid |-> [grid EXCEPT !.bid_remaining_quote[idx + 1] = @ - quote_gross,
                                !.bid_reverse_base[idx + 1] = @ + fill_base,
                                !.profits_quote = @ + maker_fee]]

apply_bid_bookkeeping(grid, idx, fill_base, quote_gross, maker_fee) ==
    IF grid.compound /\ quote_gross < maker_fee THEN [err |-> "MathOverflow", grid |-> grid]
    ELSE
    LET quote_decrease == IF grid.compound THEN quote_gross - maker_fee ELSE quote_gross
    IN  IF grid.bid_remaining_quote[idx + 1] < quote_decrease
        THEN [err |-> "MathOverflow", grid |-> grid]
        ELSE
        LET g1 == [grid EXCEPT !.bid_remaining_quote[idx + 1] = @ - quote_decrease,
                               !.bid_reverse_base[idx + 1] = @ + fill_base]
        IN  IF ~g1.compound
            THEN [err |-> "Ok", grid |-> [g1 EXCEPT !.profits_quote = @ + maker_fee]]
            ELSE [err |-> "Ok", grid |-> g1]

apply_bid_reverse_bookkeeping(grid, idx, fill_base, quote_gross, maker_fee, quota_price) ==
    IF grid.bid_reverse_base[idx + 1] < fill_base THEN [err |-> "MathOverflow", grid |-> grid]
    ELSE
    LET g1 == [grid EXCEPT !.bid_reverse_base[idx + 1] = @ - fill_base]
        add_rev == quote_gross + maker_fee
    IN  IF g1.compound
        THEN [err |-> "Ok", grid |-> [g1 EXCEPT !.bid_remaining_quote[idx + 1] = @ + add_rev]]
        ELSE
        LET target_quote == mul_div_u64(g1.base_amount_per_order, quota_price, PRICE_SCALE)
            cur == g1.bid_remaining_quote[idx + 1]
            next == cur + add_rev
        IN  IF target_quote.err # "Ok" THEN [err |-> target_quote.err, grid |-> g1]
            ELSE IF cur >= target_quote.val
            THEN [err |-> "Ok", grid |-> [g1 EXCEPT !.profits_quote = @ + add_rev]]
            ELSE IF next > target_quote.val
            THEN [err |-> "Ok",
                  grid |-> [g1 EXCEPT !.bid_remaining_quote[idx + 1] = target_quote.val,
                                      !.profits_quote = @ + (next - target_quote.val)]]
            ELSE [err |-> "Ok", grid |-> [g1 EXCEPT !.bid_remaining_quote[idx + 1] = next]]

\* apply_ask_reverse_bookkeeping with the compound branch forgotten: the slot
\* always loses quote_gross and the maker fee always goes to profits_quote
apply_ask_reverse_bookkeeping_no_compound(grid, idx, fill_base, quote_gross, maker_fee) ==
    IF grid.ask_reverse_quote[idx + 1] < quote_gross
    THEN [err |-> "MathOverflow", grid |-> grid]
    ELSE [err |-> "Ok",
          grid |-> [grid EXCEPT !.ask_reverse_quote[idx + 1] = @ - quote_gross,
                                !.ask_remaining[idx + 1] = @ + fill_base,
                                !.profits_quote = @ + maker_fee]]

apply_ask_reverse_bookkeeping(grid, idx, fill_base, quote_gross, maker_fee) ==
    IF grid.compound /\ quote_gross < maker_fee THEN [err |-> "MathOverflow", grid |-> grid]
    ELSE
    LET quote_decrease == IF grid.compound THEN quote_gross - maker_fee ELSE quote_gross
    IN  IF grid.ask_reverse_quote[idx + 1] < quote_decrease
        THEN [err |-> "MathOverflow", grid |-> grid]
        ELSE
        LET g1 == [grid EXCEPT !.ask_reverse_quote[idx + 1] = @ - quote_decrease,
                               !.ask_remaining[idx + 1] = @ + fill_base]
        IN  IF ~g1.compound
            THEN [err |-> "Ok", grid |-> [g1 EXCEPT !.profits_quote = @ + maker_fee]]
            ELSE [err |-> "Ok", grid |-> g1]

\* ------------------------------------------------------------------------
\* execute_single_fill
\* ------------------------------------------------------------------------
NoFill == [fill_base |-> 0, quote_gross |-> 0, total_fee |-> 0, protocol_fee |-> 0, maker_fee |-> 0]

FillFail(e, grid) == [err |-> e, grid |-> grid, out |-> NoFill]

\* fill_fees that rounds the maker's share down on its own instead of taking
\* what the protocol's share leaves
fill_fees_both_floored(config, grid, quote_gross) ==
    LET total_fee == calc_fee_u64(quote_gross, grid.fee_bps)
        sp == split_fee(total_fee, config.protocol_fee_bps, config.oneshot_protocol_fee_bps,
                        grid.oneshot)
        share == IF grid.oneshot THEN config.oneshot_protocol_fee_bps
                 ELSE config.protocol_fee_bps
    IN  [total_fee |-> total_fee, protocol_fee |-> sp[1],
         maker_fee |-> (total_fee * (BPS_DENOMINATOR - share)) \div BPS_DENOMINATOR]

\* fee of a fill and its split, as every arm of the match computes it
fill_fees(config, grid, quote_gross) ==
    LET total_fee == calc_fee_u64(quote_gross, grid.fee_bps)
        sp == split_fee(total_fee, config.protocol_fee_bps, config.oneshot_protocol_fee_bps,
                        grid.oneshot)
    IN  [total_fee |-> total_fee, protocol_fee |-> sp[1], maker_fee |-> sp[2]]

\* the (0, 0) arm priced at the reverse price of the slot
fill_ask_forward_rev_price(config, grid, idx, req_base) ==
    IF idx >= Len(grid.ask_remaining) THEN FillFail("InvalidOrderIndex", grid)
    ELSE IF grid.ask_remaining[idx + 1] = 0 THEN FillFail("InsufficientLiquidity", grid)
    ELSE
    LET fill_base == Min(grid.ask_remaining[idx + 1], req_base)
        quote_gross == mul_div_u64(fill_base, grid.ask_rev_prices[idx + 1], PRICE_SCALE)
    IN  IF quote_gross.err # "Ok" THEN FillFail(quote_gross.err, grid)
        ELSE
        LET f == fill_fees(config, grid, quote_gross.val)
            b == apply_ask_bookkeeping(grid, idx, fill_base, quote_gross.val, f.maker_fee,
                                       grid.ask_rev_prices[idx + 1])
        IN  IF b.err # "Ok" THEN FillFail(b.err, grid)
            ELSE [err |-> "Ok", grid |-> b.grid,
                  out |-> [fill_base |-> fill_base, quote_gross |-> quote_gross.val,
                           total_fee |-> f.total_fee, protocol_fee |-> f.protocol_fee,
                           maker_fee |-> f.maker_fee]]

\* (0, 0): fillAsk on ask order (forward)
fill_ask_forward(config, grid, idx, req_base) ==
    IF idx >= Len(grid.ask_remaining) THEN FillFail("InvalidOrderIndex", grid)
    ELSE IF grid.ask_remaining[idx + 1] = 0 THEN FillFail("InsufficientLiquidity", grid)
    ELSE
    LET fill_base == Min(grid.ask_remaining[idx + 1], req_base)
        quote_gross == mul_div_u64(fill_base, grid.ask_prices[idx + 1], PRICE_SCALE)
    IN  IF quote_gross.err # "Ok" THEN FillFail(quote_gross.err, grid)
        ELSE
        LET f == fill_fees(config, grid, quote_gross.val)
            b == apply_ask_bookkeeping(grid, idx, fill_base, quote_gross.val, f.maker_fee,
                                       grid.ask_rev_prices[idx + 1])
        IN  IF b.err # "Ok" THEN FillFail(b.err, grid)
            ELSE [err |-> "Ok", grid |-> b.grid,
                  out |-> [fill_base |-> fill_base, quote_gross |-> quote_gross.val,
                           total_fee |-> f.total_fee, protocol_fee |-> f.protocol_fee,
                           maker_fee |-> f.maker_fee]]

\* the (0, 1) arm priced at the forward bid price of the slot
fill_bid_reverse_bid_price(config, grid, idx, req_base) ==
    IF grid.oneshot THEN FillFail("InvalidInstruction", grid)
    ELSE IF idx >= Len(grid.bid_reverse_base) THEN FillFail("InvalidOrderIndex", grid)
    ELSE IF grid.bid_reverse_base[idx + 1] = 0 THEN FillFail("InsufficientLiquidity", grid)
    ELSE
    LET fill_base == Min(grid.bid_reverse_base[idx + 1], req_base)
        quote_gross == mul_div_u64(fill_base, grid.bid_prices[idx + 1], PRICE_SCALE)
    IN  IF quote_gross.err # "Ok" THEN FillFail(quote_gross.err, grid)
        ELSE
        LET f == fill_fees(config, grid, quote_gross.val)
            b == apply_bid_reverse_bookkeeping(grid, idx, fill_base, quote_gross.val,
                                               f.maker_fee, grid.bid_prices[idx + 1])
        IN  IF b.err # "Ok" THEN FillFail(b.err, grid)
            ELSE [err |-> "Ok", grid |-> b.grid,
                  out |-> [fill_base |-> fill_base, quote_gross |-> quote_gross.val,
                           total_fee |-> f.total_fee, protocol_fee |-> f.protocol_fee,
                           maker_fee |-> f.maker_fee]]

\* (0, 1): fillAsk on bid order (reverse)
fill_bid_reverse(config, grid, idx, req_base) ==
    IF grid.oneshot THEN FillFail("InvalidInstruction", grid)
    ELSE IF idx >= Len(grid.bid_reverse_base) THEN FillFail("InvalidOrderIndex", grid)
    ELSE IF grid.bid_reverse_base[idx + 1] = 0 THEN FillFail("InsufficientLiquidity", grid)
    ELSE
    LET fill_base == Min(grid.bid_reverse_base[idx + 1], req_base)
        quote_gross == mul_div_u64(fill_base, grid.bid_rev_prices[idx + 1], PRICE_SCALE)
    IN  IF quote_gross.err # "Ok" THEN FillFail(quote_gross.err, grid)
        ELSE
        LET f == fill_fees(config, grid, quote_gross.val)
            b == apply_bid_reverse_bookkeeping(grid, idx, fill_base, quote_gross.val,
                                               f.maker_fee, grid.bid_prices[idx + 1])
        IN  IF b.err # "Ok" THEN FillFail(b.err, grid)
            ELSE [err |-> "Ok", grid |-> b.grid,
                  out |-> [fill_base |-> fill_base, quote_gross |-> quote_gross.val,
                           total_fee |-> f.total_fee, protocol_fee |-> f.protocol_fee,
                           maker_fee |-> f.maker_fee]]

\* clamp_to_quote that clamps the quote but keeps the requested base
clamp_to_quote_base_unclamped(req_base, price, remaining_quote) ==
    LET cost == mul_div_u64(req_base, price, PRICE_SCALE)
    IN  IF cost.err # "Ok" THEN [err |-> cost.err, fill_base |-> 0, quote_gross |-> 0]
        ELSE IF cost.val > remaining_quote
        THEN [err |-> "Ok", fill_base |-> req_base, quote_gross |-> remaining_quote]
        ELSE [err |-> "Ok", fill_base |-> req_base, quote_gross |-> cost.val]

\* The request converted to quote at price and clamped to the slot's remaining
\* quote, as the two taker-sells arms do.
clamp_to_quote(req_base, price, remaining_quote) ==
    LET cost == mul_div_u64(req_base, price, PRICE_SCALE)
    IN  IF cost.err # "Ok" THEN [err |-> cost.err, fill_base |-> 0, quote_gross |-> 0]
        ELSE IF cost.val > remaining_quote
        THEN LET fb == mul_div_u64(remaining_quote, PRICE_SCALE, price)
             IN  IF fb.err # "Ok" THEN [err |-> fb.err, fill_base |-> 0, quote_gross |-> 0]
                 ELSE [err |-> "Ok", fill_base |-> fb.val, quote_gross |-> remaining_quote]
        ELSE [err |-> "Ok", fill_base |-> req_base, quote_gross |-> cost.val]

\* the (1, 1) arm without the check for an empty slot
fill_bid_forward_no_empty_check(config, grid, idx, req_base) ==
    IF idx >= Len(grid.bid_remaining_quote) THEN FillFail("InvalidOrderIndex", grid)
    ELSE
    LET c == clamp_to_quote(req_base, grid.bid_prices[idx + 1], grid.bid_remaining_quote[idx + 1])
    IN  IF c.err # "Ok" THEN FillFail(c.err, grid)
        ELSE
        LET f == fill_fees(config, grid, c.quote_gross)
            b == apply_bid_bookkeeping(grid, idx, c.fill_base, c.quote_gross, f.maker_fee)
        IN  IF b.err # "Ok" THEN FillFail(b.err, grid)
            ELSE [err |-> "Ok", grid |-> b.grid,
                  out |-> [fill_base |-> c.fill_base, quote_gross |-> c.quote_gross,
                           total_fee |-> f.total_fee, protocol_fee |-> f.protocol_fee,
                           maker_fee |-> f.maker_fee]]

\* (1, 1): fillBid on bid order (forward)
fill_bid_forward(config, grid, idx, req_base) ==
    IF idx >= Len(grid.bid_remaining_quote) THEN FillFail("InvalidOrderIndex", grid)
    ELSE IF grid.bid_remaining_quote[idx + 1] = 0 THEN FillFail("InsufficientLiquidity", grid)
    ELSE
    LET c == clamp_to_quote(req_base, grid.bid_prices[idx + 1], grid.bid_remaining_quote[idx + 1])
    IN  IF c.err # "Ok" THEN FillFail(c.err, grid)
        ELSE IF c.fill_base = 0 \/ c.quote_gross = 0 THEN FillFail("InsufficientLiquidity", grid)
        ELSE
        LET f == fill_fees(config, grid, c.quote_gross)
            b == apply_bid_bookkeeping(grid, idx, c.fill_base, c.quote_gross, f.maker_fee)
        IN  IF b.err # "Ok" THEN FillFail(b.err, grid)
            ELSE [err |-> "Ok", grid |-> b.grid,
                  out |-> [fill_base |-> c.fill_base, quote_gross |-> c.quote_gross,
                           total_fee |-> f.total_fee, protocol_fee |-> f.protocol_fee,
                           maker_fee |-> f.maker_fee]]

\* the (1, 0) arm without the oneshot check
fill_ask_reverse_no_oneshot_check(config, grid, idx, req_base) ==
    IF idx >= Len(grid.ask_reverse_quote) THEN FillFail("InvalidOrderIndex", grid)
    ELSE IF grid.ask_reverse_quote[idx + 1] = 0 THEN FillFail("InsufficientLiquidity", grid)
    ELSE
    LET c == clamp_to_quote(req_base, grid.ask_rev_prices[idx + 1], grid.ask_reverse_quote[idx + 1])
    IN  IF c.err # "Ok" THEN FillFail(c.err, grid)
        ELSE IF c.fill_base = 0 \/ c.quote_gross = 0 THEN FillFail("InsufficientLiquidity", grid)
        ELSE
        LET f == fill_fees(config, grid, c.quote_gross)
            b == apply_ask_reverse_bookkeeping(grid, idx, c.fill_base, c.quote_gross, f.maker_fee)
        IN  IF b.err # "Ok" THEN FillFail(b.err, grid)
            ELSE [err |-> "Ok", grid |-> b.grid,
                  out |-> [fill_base |-> c.fill_base, quote_gross |-> c.quote_gross,
                           total_fee |-> f.total_fee, protocol_fee |-> f.protocol_fee,
                           maker_fee |-> f.maker_fee]]

\* (1, 0): fillBid on ask order (reverse)
fill_ask_reverse(config, grid, idx, req_base) ==
    IF grid.oneshot THEN FillFail("InvalidInstruction", grid)
    ELSE IF idx >= Len(grid.ask_reverse_quote) THEN FillFail("InvalidOrderIndex", grid)
    ELSE IF grid.ask_reverse_quote[idx + 1] = 0 THEN FillFail("InsufficientLiquidity", grid)
    ELSE
    LET c == clamp_to_quote(req_base, grid.ask_rev_prices[idx + 1], grid.ask_reverse_quote[idx + 1])
    IN  IF c.err # "Ok" THEN FillFail(c.err, grid)
        ELSE IF c.fill_base = 0 \/ c.quote_gross = 0 THEN FillFail("InsufficientLiquidity", grid)
        ELSE
        LET f == fill_fees(config, grid, c.quote_gross)
            b == apply_ask_reverse_bookkeeping(grid, idx, c.fill_base, c.quote_gross, f.maker_fee)
        IN  IF b.err # "Ok" THEN FillFail(b.err, grid)
            ELSE [err |-> "Ok", grid |-> b.grid,
                  out |-> [fill_base |-> c.fill_base, quote_gross |-> c.quote_gross,
                           total_fee |-> f.total_fee, protocol_fee |-> f.protocol_fee,
                           maker_fee |-> f.maker_fee]]

\* the match on (fill.side, fill.order_side)
fill_dispatch(config, grid, fill) ==
    IF fill.side = 0 /\ fill.order_side = 0
    THEN fill_ask_forward(config, grid, fill.order_index, fill.base_amount)
    ELSE IF fill.side = 0 /\ fill.order_side = 1
    THEN fill_bid_reverse(config, grid, fill.order_index, fill.base_amount)
    ELSE IF fill.side = 1 /\ fill.order_side = 1
    THEN fill_bid_forward(config, grid, fill.order_index, fill.base_amount)
    ELSE IF fill.side = 1 /\ fill.order_side = 0
    THEN fill_ask_reverse(config, grid, fill.order_index, fill.base_amount)
    ELSE FillFail("InvalidInstruction", grid)

\* fill_transfers that takes quote_gross from a buying taker, the fee not added
fill_transfers_fee_not_charged(tokens, taker, base_vault, quote_vault, side, out) ==
    IF side = 0
    THEN LET t1 == token_transfer(tokens, Acct("user_quote", taker),
                                  Acct("vault_quote", quote_vault), out.quote_gross)
         IN  IF t1.err # "Ok" THEN t1
             ELSE token_transfer(t1.tokens, Acct("vault_base", base_vault),
                                 Acct("user_base", taker), out.fill_base)
    ELSE IF out.quote_gross < out.total_fee
    THEN [err |-> "MathOverflow", tokens |-> tokens]
    ELSE LET quote_out == out.quote_gross - out.total_fee
             t1 == token_transfer(tokens, Acct("user_base", taker),
                                  Acct("vault_base", base_vault), out.fill_base)
         IN  IF t1.err # "Ok" THEN t1
             ELSE token_transfer(t1.tokens, Acct("vault_quote", quote_vault),
                                 Acct("user_quote", taker), quote_out)

\* fill_transfers that pays a selling taker quote_gross, the fee not withheld
fill_transfers_fee_not_withheld(tokens, taker, base_vault, quote_vault, side, out) ==
    IF side = 0
    THEN LET quote_in == out.quote_gross + out.total_fee
             t1 == token_transfer(tokens, Acct("user_quote", taker),
                                  Acct("vault_quote", quote_vault), quote_in)
         IN  IF t1.err # "Ok" THEN t1
             ELSE token_transfer(t1.tokens, Acct("vault_base", base_vault),
                                 Acct("user_base", taker), out.fill_base)
    ELSE LET t1 == token_transfer(tokens, Acct("user_base", taker),
                                  Acct("vault_base", base_vault), out.fill_base)
         IN  IF t1.err # "Ok" THEN t1
             ELSE token_transfer(t1.tokens, Acct("vault_quote", quote_vault),
                                 Acct("user_quote", taker), out.quote_gross)

\* the token movement of a fill: on a buy the taker pays quote_gross + total_fee
\* and receives fill_base; on a sell the taker pays fill_base and receives
\* quote_gross - total_fee
fill_transfers(tokens, taker, base_vault, quote_vault, side, out) ==
    IF side = 0
    THEN LET quote_in == out.quote_gross + out.total_fee
             t1 == token_transfer(tokens, Acct("user_quote", taker),
                                  Acct("vault_quote", quote_vault), quote_in)
         IN  IF t1.err # "Ok" THEN t1
             ELSE token_transfer(t1.tokens, Acct("vault_base", base_vault),
                                 Acct("user_base", taker), out.fill_base)
    ELSE IF out.quote_gross < out.total_fee
    THEN [err |-> "MathOverflow", tokens |-> tokens]
    ELSE LET quote_out == out.quote_gross - out.total_fee
             t1 == token_transfer(tokens, Acct("user_base", taker),
                                  Acct("vault_base", base_vault), out.fill_base)
         IN  IF t1.err # "Ok" THEN t1
             ELSE token_transfer(t1.tokens, Acct("vault_quote", quote_vault),
                                 Acct("user_quote", taker), quote_out)

execute_single_fill(config, grid, tokens, taker, base_vault, quote_vault, fill) ==
    LET \* after the transfers t of the fill m
        settle(m, t) ==
            IF t.err # "Ok"
            THEN [err |-> t.err, grid |-> m.grid, tokens |-> t.tokens, out |-> NoFill]
            ELSE [err |-> "Ok",
                  grid |-> [m.grid EXCEPT !.protocol_fees_quote = @ + m.out.protocol_fee],
                  tokens |-> t.tokens, out |-> m.out]
        \* after the match arm returned m
        transfer(m) ==
            IF m.err # "Ok" THEN [err |-> m.err, grid |-> grid, tokens |-> tokens, out |-> NoFill]
            ELSE settle(m, fill_transfers(tokens, taker, base_vault, quote_vault, fill.side, m.out))
    IN  transfer(fill_dispatch(config, grid, fill))

\* ------------------------------------------------------------------------
\* Instruction handlers.  st = [config, grids, tokens] is the account state
\* the handler starts from; the result carries the accounts as the handler
\* leaves them when it returns, with the error code it returns.
\* ------------------------------------------------------------------------
Res(e, config, grids, tokens, out) ==
    [err |-> e, config |-> config, grids |-> grids, tokens |-> tokens, out |-> out]

Rej(e, st) == Res(e, st.config, st.grids, st.tokens, NoFill)

\* the accounts a caller passes for a grid's vaults and signer
Accts(k) == [base_vault |-> k, quote_vault |-> k, grid_signer |-> k]

\* the three assert_address_matches calls of the grid-addressed handlers
vaults_match(grid, accts) ==
    /\ accts.base_vault = grid.base_vault
    /\ accts.quote_vault = grid.quote_vault
    /\ accts.grid_signer = grid.signer

initialize_config(st, admin, protocol_fee_bps, oneshot_protocol_fee_bps) ==
    IF protocol_fee_bps > MAX_FEE_BPS \/ oneshot_protocol_fee_bps > MAX_FEE_BPS
    THEN Rej("InvalidFee", st)
    ELSE Res("Ok",
             [admin |-> admin, paused |-> FALSE, protocol_fee_bps |-> protocol_fee_bps,
              oneshot_protocol_fee_bps |-> oneshot_protocol_fee_bps, next_grid_id |-> 1],
             st.grids, st.tokens, NoFill)

set_pause(st, admin, paused) ==
    IF st.config.admin # admin THEN Rej("NotAdmin", st)
    ELSE Res("Ok", [st.config EXCEPT !.paused = paused], st.grids, st.tokens, NoFill)

set_protocol_fee(st, admin, protocol_fee_bps) ==
    IF protocol_fee_bps > MAX_FEE_BPS THEN Rej("InvalidFee", st)
    ELSE IF st.config.admin # admin THEN Rej("NotAdmin", st)
    ELSE Res("Ok", [st.config EXCEPT !.protocol_fee_bps = protocol_fee_bps],
             st.grids, st.tokens, NoFill)

\* set_oneshot_protocol_fee that also re-prices the oneshot grids that exist
set_oneshot_protocol_fee_retroactive(st, admin, oneshot_protocol_fee_bps) ==
    IF oneshot_protocol_fee_bps > MAX_FEE_BPS THEN Rej("InvalidFee", st)
    ELSE IF st.config.admin # admin THEN Rej("NotAdmin", st)
    ELSE Res("Ok", [st.config EXCEPT !.oneshot_protocol_fee_bps = oneshot_protocol_fee_bps],
             [k \in DOMAIN st.grids |->
                 IF st.grids[k].written /\ st.grids[k].oneshot
                 THEN [st.grids[k] EXCEPT !.fee_bps = oneshot_protocol_fee_bps]
                 ELSE st.grids[k]],
             st.tokens, NoFill)

set_oneshot_protocol_fee(st, admin, oneshot_protocol_fee_bps) ==
    IF oneshot_protocol_fee_bps > MAX_FEE_BPS THEN Rej("InvalidFee", st)
    ELSE IF st.config.admin # admin THEN Rej("NotAdmin", st)
    ELSE Res("Ok", [st.config EXCEPT !.oneshot_protocol_fee_bps = oneshot_protocol_fee_bps],
             st.grids, st.tokens, NoFill)

\* initial_bid_quotes that prices every slot one tick above its bid price
RECURSIVE initial_bid_quotes_next_tick(_, _)
initial_bid_quotes_next_tick(base_amount_per_order, bid_prices) ==
    IF bid_prices = <<>> THEN [err |-> "Ok", quotes |-> <<>>]
    ELSE LET quote == mul_div_u64(base_amount_per_order, Head(bid_prices) + 1, PRICE_SCALE)
             rest == initial_bid_quotes_next_tick(base_amount_per_order, Tail(bid_prices))
         IN  IF quote.err # "Ok" THEN [err |-> quote.err, quotes |-> <<>>]
             ELSE IF quote.val = 0 THEN [err |-> "InvalidOrderCount", quotes |-> <<>>]
             ELSE IF rest.err # "Ok" THEN rest
             ELSE [err |-> "Ok", quotes |-> <<quote.val>> \o rest.quotes]

\* bid_remaining_quote of a new grid: each slot's notional at its bid price;
\* a zero notional rejects the grid
RECURSIVE initial_bid_quotes(_, _)
initial_bid_quotes(base_amount_per_order, bid_prices) ==
    IF bid_prices = <<>> THEN [err |-> "Ok", quotes |-> <<>>]
    ELSE LET quote == mul_div_u64(base_amount_per_order, Head(bid_prices), PRICE_SCALE)
             rest == initial_bid_quotes(base_amount_per_order, Tail(bid_prices))
         IN  IF quote.err # "Ok" THEN [err |-> quote.err, quotes |-> <<>>]
             ELSE IF quote.val = 0 THEN [err |-> "InvalidOrderCount", quotes |-> <<>>]
             ELSE IF rest.err # "Ok" THEN rest
             ELSE [err |-> "Ok", quotes |-> <<quote.val>> \o rest.quotes]

create_grid(st, owner, k, accts, params) ==
    IF params.fee_bps > MAX_FEE_BPS THEN Rej("InvalidFee", st)
    ELSE IF params.base_amount_per_order = 0 THEN Rej("ZeroAmount", st)
    ELSE IF params.ask_count = 0 /\ params.bid_count = 0 THEN Rej("InvalidOrderCount", st)
    ELSE IF params.ask_count > MAX_ORDERS_PER_SIDE \/ params.bid_count > MAX_ORDERS_PER_SIDE
         THEN Rej("InvalidOrderCount", st)
    ELSE IF st.config.paused THEN Rej("Paused", st)
    ELSE
    LET ask_prices == build_side_prices(params.ask_price0, params.ask_count,
                                        params.ask_strategy, TRUE)
        ask_rev_prices == build_side_reverse_prices(params.ask_price0, params.ask_count,
                                                    params.ask_strategy, TRUE, ask_prices.prices)
        bid_prices == build_side_prices(params.bid_price0, params.bid_count,
                                        params.bid_strategy, FALSE)
        bid_rev_prices == build_side_reverse_prices(params.bid_price0, params.bid_count,
                                                    params.bid_strategy, FALSE, bid_prices.prices)
        bid_remaining_quote == initial_bid_quotes(params.base_amount_per_order, bid_prices.prices)
    IN  IF ask_prices.err # "Ok" THEN Rej(ask_prices.err, st)
        ELSE IF ask_rev_prices.err # "Ok" THEN Rej(ask_rev_prices.err, st)
        ELSE IF bid_prices.err # "Ok" THEN Rej(bid_prices.err, st)
        ELSE IF bid_rev_prices.err # "Ok" THEN Rej(bid_rev_prices.err, st)
        ELSE IF bid_remaining_quote.err # "Ok" THEN Rej(bid_remaining_quote.err, st)
        ELSE
        LET ask_total_base == params.base_amount_per_order * Len(ask_prices.prices)
            bid_total_quote == SumSeq(bid_remaining_quote.quotes)
            grid == [written |-> TRUE,
                     owner |-> owner,
                     id |-> st.config.next_grid_id,
                     status |-> 0,
                     base_vault |-> accts.base_vault,
                     quote_vault |-> accts.quote_vault,
                     signer |-> accts.grid_signer,
                     fee_bps |-> IF params.oneshot THEN st.config.oneshot_protocol_fee_bps
                                 ELSE params.fee_bps,
                     compound |-> params.compound,
                     oneshot |-> params.oneshot,
                     base_amount_per_order |-> params.base_amount_per_order,
                     profits_quote |-> 0,
                     protocol_fees_quote |-> 0,
                     ask_prices |-> ask_prices.prices,
                     ask_rev_prices |-> ask_rev_prices.prices,
                     ask_remaining |-> [i \in 1..Len(ask_prices.prices) |->
                                            params.base_amount_per_order],
                     ask_reverse_quote |-> [i \in 1..Len(ask_prices.prices) |-> 0],
                     bid_prices |-> bid_prices.prices,
                     bid_rev_prices |-> bid_rev_prices.prices,
                     bid_remaining_quote |-> bid_remaining_quote.quotes,
                     bid_reverse_base |-> [i \in 1..Len(bid_prices.prices) |-> 0]]
            t1 == IF ask_total_base > 0
                  THEN token_transfer(st.tokens, Acct("user_base", owner),
                                      Acct("vault_base", accts.base_vault), ask_total_base)
                  ELSE [err |-> "Ok", tokens |-> st.tokens]
            t2 == IF bid_total_quote > 0
                  THEN token_transfer(t1.tokens, Acct("user_quote", owner),
                                      Acct("vault_quote", accts.quote_vault), bid_total_quote)
                  ELSE [err |-> "Ok", tokens |-> t1.tokens]
        IN  IF ~can_place(grid) THEN Rej("InvalidOrderCount", st)
            ELSE IF t1.err # "Ok" THEN Rej(t1.err, st)
            ELSE IF t2.err # "Ok" THEN Res(t2.err, st.config, st.grids, t2.tokens, NoFill)
            ELSE Res("Ok", [st.config EXCEPT !.next_grid_id = @ + 1],
                     [st.grids EXCEPT ![k] = grid], t2.tokens, NoFill)

\* fill_target without the is_active check
fill_target_any_status(config, grids, tokens, taker, fill) ==
    LET rd == read_grid(grids, fill.key)
    IN  IF rd.err # "Ok" THEN Res(rd.err, config, grids, tokens, NoFill)
        ELSE IF ~vaults_match(rd.grid, fill.accts)
             THEN Res("InvalidInstruction", config, grids, tokens, NoFill)
        ELSE
        LET write_back(x) ==
                IF x.err # "Ok" THEN Res(x.err, config, grids, x.tokens, NoFill)
                ELSE Res("Ok", config, [grids EXCEPT ![fill.key] = x.grid], x.tokens, x.out)
        IN  write_back(execute_single_fill(config, rd.grid, tokens, taker,
                                           fill.accts.base_vault, fill.accts.quote_vault, fill))

\* fill_target without the three assert_address_matches calls
fill_target_any_vault(config, grids, tokens, taker, fill) ==
    LET rd == read_grid(grids, fill.key)
    IN  IF rd.err # "Ok" THEN Res(rd.err, config, grids, tokens, NoFill)
        ELSE IF ~is_active(rd.grid) THEN Res("GridCanceled", config, grids, tokens, NoFill)
        ELSE
        LET write_back(x) ==
                IF x.err # "Ok" THEN Res(x.err, config, grids, x.tokens, NoFill)
                ELSE Res("Ok", config, [grids EXCEPT ![fill.key] = x.grid], x.tokens, x.out)
        IN  write_back(execute_single_fill(config, rd.grid, tokens, taker,
                                           fill.accts.base_vault, fill.accts.quote_vault, fill))

\* the part of fill_order and of one iteration of fill_orders that follows the
\* pause check: read the grid, check it, fill, write it back
fill_target(config, grids, tokens, taker, fill) ==
    LET rd == read_grid(grids, fill.key)
    IN  IF rd.err # "Ok" THEN Res(rd.err, config, grids, tokens, NoFill)
        ELSE IF ~is_active(rd.grid) THEN Res("GridCanceled", config, grids, tokens, NoFill)
        ELSE IF ~vaults_match(rd.grid, fill.accts)
             THEN Res("InvalidInstruction", config, grids, tokens, NoFill)
        ELSE
        LET \* write_state(grid_ai, &grid) only when the fill x returned Ok
            write_back(x) ==
                IF x.err # "Ok" THEN Res(x.err, config, grids, x.tokens, NoFill)
                ELSE Res("Ok", config, [grids EXCEPT ![fill.key] = x.grid], x.tokens, x.out)
        IN  write_back(execute_single_fill(config, rd.grid, tokens, taker,
                                           fill.accts.base_vault, fill.accts.quote_vault, fill))

\* fill_order without the pause check
fill_order_ignores_pause(st, taker, fill) ==
    IF fill.base_amount = 0 THEN Rej("ZeroAmount", st)
    ELSE fill_target(st.config, st.grids, st.tokens, taker, fill)

fill_order(st, taker, fill) ==
    IF fill.base_amount = 0 THEN Rej("ZeroAmount", st)
    ELSE IF st.config.paused THEN Rej("Paused", st)
    ELSE fill_target(st.config, st.grids, st.tokens, taker, fill)

\* the loop of fill_orders that goes on to the next target when one fails
RECURSIVE fill_orders_loop_skip_failed(_, _, _, _, _)
fill_orders_loop_skip_failed(config, grids, tokens, taker, fills) ==
    IF fills = <<>> THEN Res("Ok", config, grids, tokens, NoFill)
    ELSE IF Head(fills).base_amount = 0 THEN Res("ZeroAmount", config, grids, tokens, NoFill)
    ELSE LET continue(r) ==
                 IF r.err # "Ok"
                 THEN fill_orders_loop_skip_failed(config, grids, tokens, taker, Tail(fills))
                 ELSE fill_orders_loop_skip_failed(config, r.grids, r.tokens, taker, Tail(fills))
         IN  continue(fill_target(config, grids, tokens, taker, Head(fills)))

\* the loop of fill_orders over params.fills; the accounts written by the
\* targets already processed stay written when a later target fails
\* the loop of fill_orders with every target reading the grids as they were
\* when the batch began: a later target of the same grid does not see what an
\* earlier one wrote, and its write replaces the earlier one
RECURSIVE fill_orders_loop_stale_grids(_, _, _, _, _)
fill_orders_loop_stale_grids(config, grids, tokens, taker, fills) ==
    IF fills = <<>> THEN Res("Ok", config, grids, tokens, NoFill)
    ELSE IF Head(fills).base_amount = 0 THEN Res("ZeroAmount", config, grids, tokens, NoFill)
    ELSE LET merge(r, rest) ==
                 IF rest.err # "Ok" THEN rest
                 ELSE [rest EXCEPT !.grids = [k \in DOMAIN grids |->
                                                 IF rest.grids[k] # grids[k] THEN rest.grids[k]
                                                 ELSE r.grids[k]]]
             continue(r) ==
                 IF r.err # "Ok" THEN r
                 ELSE merge(r, fill_orders_loop_stale_grids(config, grids, r.tokens, taker,
                                                            Tail(fills)))
         IN  continue(fill_target(config, grids, tokens, taker, Head(fills)))

RECURSIVE fill_orders_loop(_, _, _, _, _)
fill_orders_loop(config, grids, tokens, taker, fills) ==
    IF fills = <<>> THEN Res("Ok", config, grids, tokens, NoFill)
    ELSE IF Head(fills).base_amount = 0 THEN Res("ZeroAmount", config, grids, tokens, NoFill)
    ELSE LET \* the `?` on the target's result r, then the next iteration
             continue(r) ==
                 IF r.err # "Ok" THEN r
                 ELSE fill_orders_loop(config, r.grids, r.tokens, taker, Tail(fills))
         IN  continue(fill_target(config, grids, tokens, taker, Head(fills)))

fill_orders(st, taker, fills) ==
    IF fills = <<>> THEN Rej("InvalidOrderCount", st)
    ELSE IF st.config.paused THEN Rej("Paused", st)
    ELSE fill_orders_loop(st.config, st.grids, st.tokens, taker, fills)

\* the refund transfers of cancel_order and cancel_grid: base first, then
\* quote, each only when its amount is positive
refund_transfers(tokens, owner, accts, refund_base, refund_quote) ==
    LET t1 == IF refund_base > 0
              THEN token_transfer(tokens, Acct("vault_base", accts.base_vault),
                                  Acct("user_base", owner), refund_base)
              ELSE [err |-> "Ok", tokens |-> tokens]
    IN  IF t1.err # "Ok" THEN t1
        ELSE IF refund_quote > 0
        THEN token_transfer(t1.tokens, Acct("vault_quote", accts.quote_vault),
                            Acct("user_quote", owner), refund_quote)
        ELSE t1

\* cancel_order that refunds the reverse quote of an ask slot and leaves it booked
cancel_order_keep_reverse(st, owner, k, accts, side, order_index) ==
    LET rd == read_grid(st.grids, k)
        grid == rd.grid
        idx == order_index
    IN  IF rd.err # "Ok" THEN Rej(rd.err, st)
        ELSE IF grid.owner # owner THEN Rej("NotGridOwner", st)
        ELSE IF ~vaults_match(grid, accts) THEN Rej("InvalidInstruction", st)
        ELSE IF side = 0
        THEN IF idx >= Len(grid.ask_remaining) THEN Rej("InvalidOrderIndex", st)
             ELSE
             LET refund_base == grid.ask_remaining[idx + 1]
                 refund_quote == grid.ask_reverse_quote[idx + 1]
                 g1 == [grid EXCEPT !.ask_remaining[idx + 1] = 0]
                 t == refund_transfers(st.tokens, owner, accts, refund_base, refund_quote)
             IN  IF refund_base = 0 /\ refund_quote = 0 THEN Rej("InsufficientLiquidity", st)
                 ELSE IF t.err # "Ok" THEN Res(t.err, st.config, st.grids, t.tokens, NoFill)
                 ELSE Res("Ok", st.config, [st.grids EXCEPT ![k] = g1], t.tokens, NoFill)
        ELSE IF side = 1
        THEN IF idx >= Len(grid.bid_remaining_quote) THEN Rej("InvalidOrderIndex", st)
             ELSE
             LET refund_base == grid.bid_reverse_base[idx + 1]
                 refund_quote == grid.bid_remaining_quote[idx + 1]
                 g1 == [grid EXCEPT !.bid_remaining_quote[idx + 1] = 0,
                                    !.bid_reverse_base[idx + 1] = 0]
                 t == refund_transfers(st.tokens, owner, accts, refund_base, refund_quote)
             IN  IF refund_base = 0 /\ refund_quote = 0 THEN Rej("InsufficientLiquidity", st)
                 ELSE IF t.err # "Ok" THEN Res(t.err, st.config, st.grids, t.tokens, NoFill)
                 ELSE Res("Ok", st.config, [st.grids EXCEPT ![k] = g1], t.tokens, NoFill)
        ELSE Rej("InvalidInstruction", st)

cancel_order(st, owner, k, accts, side, order_index) ==
    LET rd == read_grid(st.grids, k)
        grid == rd.grid
        idx == order_index
    IN  IF rd.err # "Ok" THEN Rej(rd.err, st)
        ELSE IF grid.owner # owner THEN Rej("NotGridOwner", st)
        ELSE IF ~vaults_match(grid, accts) THEN Rej("InvalidInstruction", st)
        ELSE IF side = 0
        THEN IF idx >= Len(grid.ask_remaining) THEN Rej("InvalidOrderIndex", st)
             ELSE
             LET refund_base == grid.ask_remaining[idx + 1]
                 refund_quote == grid.ask_reverse_quote[idx + 1]
                 g1 == [grid EXCEPT !.ask_remaining[idx + 1] = 0,
                                    !.ask_reverse_quote[idx + 1] = 0]
                 t == refund_transfers(st.tokens, owner, accts, refund_base, refund_quote)
             IN  IF refund_base = 0 /\ refund_quote = 0 THEN Rej("InsufficientLiquidity", st)
                 ELSE IF t.err # "Ok" THEN Res(t.err, st.config, st.grids, t.tokens, NoFill)
                 ELSE Res("Ok", st.config, [st.grids EXCEPT ![k] = g1], t.tokens, NoFill)
        ELSE IF side = 1
        THEN IF idx >= Len(grid.bid_remaining_quote) THEN Rej("InvalidOrderIndex", st)
             ELSE
             LET refund_base == grid.bid_reverse_base[idx + 1]
                 refund_quote == grid.bid_remaining_quote[idx + 1]
                 g1 == [grid EXCEPT !.bid_remaining_quote[idx + 1] = 0,
                                    !.bid_reverse_base[idx + 1] = 0]
                 t == refund_transfers(st.tokens, owner, accts, refund_base, refund_quote)
             IN  IF refund_base = 0 /\ refund_quote = 0 THEN Rej("InsufficientLiquidity", st)
                 ELSE IF t.err # "Ok" THEN Res(t.err, st.config, st.grids, t.tokens, NoFill)
                 ELSE Res("Ok", st.config, [st.grids EXCEPT ![k] = g1], t.tokens, NoFill)
        ELSE Rej("InvalidInstruction", st)

\* the inventories emptied, not zeroed: the array loses its slots
Zeroed_cleared(values) == <<>>

Zeroed(values) == [i \in 1..Len(values) |-> 0]

\* cancel_grid that zeroes profits_quote without refunding it
cancel_grid_profits_kept(st, owner, k, accts) ==
    LET rd == read_grid(st.grids, k)
        grid == rd.grid
    IN  IF rd.err # "Ok" THEN Rej(rd.err, st)
        ELSE IF grid.owner # owner THEN Rej("NotGridOwner", st)
        ELSE IF ~is_active(grid) THEN Rej("GridCanceled", st)
        ELSE IF ~vaults_match(grid, accts) THEN Rej("InvalidInstruction", st)
        ELSE
        LET refund_base == sum_u64_slice(grid.ask_remaining) + sum_u64_slice(grid.bid_reverse_base)
            refund_quote == sum_u64_slice(grid.ask_reverse_quote)
                            + sum_u64_slice(grid.bid_remaining_quote)
            t == refund_transfers(st.tokens, owner, accts, refund_base, refund_quote)
            g1 == [grid EXCEPT !.ask_remaining = Zeroed(@),
                               !.ask_reverse_quote = Zeroed(@),
                               !.bid_remaining_quote = Zeroed(@),
                               !.bid_reverse_base = Zeroed(@),
                               !.profits_quote = 0,
                               !.status = 1]
        IN  IF t.err # "Ok" THEN Res(t.err, st.config, st.grids, t.tokens, NoFill)
            ELSE Res("Ok", st.config, [st.grids EXCEPT ![k] = g1], t.tokens, NoFill)

\* cancel_grid that refuses to run while the program is paused
cancel_grid_blocked_by_pause(st, owner, k, accts) ==
    LET rd == read_grid(st.grids, k)
        grid == rd.grid
    IN  IF st.config.paused THEN Rej("Paused", st)
        ELSE IF rd.err # "Ok" THEN Rej(rd.err, st)
        ELSE IF grid.owner # owner THEN Rej("NotGridOwner", st)
        ELSE IF ~is_active(grid) THEN Rej("GridCanceled", st)
        ELSE IF ~vaults_match(grid, accts) THEN Rej("InvalidInstruction", st)
        ELSE
        LET refund_base == sum_u64_slice(grid.ask_remaining) + sum_u64_slice(grid.bid_reverse_base)
            refund_quote == sum_u64_slice(grid.ask_reverse_quote)
                            + sum_u64_slice(grid.bid_remaining_quote) + grid.profits_quote
            t == refund_transfers(st.tokens, owner, accts, refund_base, refund_quote)
            g1 == [grid EXCEPT !.ask_remaining = Zeroed(@),
                               !.ask_reverse_quote = Zeroed(@),
                               !.bid_remaining_quote = Zeroed(@),
                               !.bid_reverse_base = Zeroed(@),
                               !.profits_quote = 0,
                               !.status = 1]
        IN  IF t.err # "Ok" THEN Res(t.err, st.config, st.grids, t.tokens, NoFill)
            ELSE Res("Ok", st.config, [st.grids EXCEPT ![k] = g1], t.tokens, NoFill)

cancel_grid(st, owner, k, accts) ==
    LET rd == read_grid(st.grids, k)
        grid == rd.grid
    IN  IF rd.err # "Ok" THEN Rej(rd.err, st)
        ELSE IF grid.owner # owner THEN Rej("NotGridOwner", st)
        ELSE IF ~is_active(grid) THEN Rej("GridCanceled", st)
        ELSE IF ~vaults_match(grid, accts) THEN Rej("InvalidInstruction", st)
        ELSE
        LET refund_base == sum_u64_slice(grid.ask_remaining) + sum_u64_slice(grid.bid_reverse_base)
            refund_quote == sum_u64_slice(grid.ask_reverse_quote)
                            + sum_u64_slice(grid.bid_remaining_quote) + grid.profits_quote
            t == refund_transfers(st.tokens, owner, accts, refund_base, refund_quote)
            g1 == [grid EXCEPT !.ask_remaining = Zeroed(@),
                               !.ask_reverse_quote = Zeroed(@),
                               !.bid_remaining_quote = Zeroed(@),
                               !.bid_reverse_base = Zeroed(@),
                               !.profits_quote = 0,
                               !.status = 1]
        IN  IF t.err # "Ok" THEN Res(t.err, st.config, st.grids, t.tokens, NoFill)
            ELSE Res("Ok", st.config, [st.grids EXCEPT ![k] = g1], t.tokens, NoFill)

\* withdraw_profits that takes a non-zero amount as it is
withdraw_profits_uncapped(st, owner, k, accts, amount) ==
    LET rd == read_grid(st.grids, k)
        grid == rd.grid
    IN  IF rd.err # "Ok" THEN Rej(rd.err, st)
        ELSE IF grid.owner # owner THEN Rej("NotGridOwner", st)
        ELSE IF accts.quote_vault # grid.quote_vault \/ accts.grid_signer # grid.signer
             THEN Rej("InvalidInstruction", st)
        ELSE
        LET withdraw_amt == IF amount = 0 THEN grid.profits_quote ELSE amount
            t == token_transfer(st.tokens, Acct("vault_quote", accts.quote_vault),
                                Acct("user_quote", owner), withdraw_amt)
        IN  IF withdraw_amt = 0 THEN Rej("NoProfits", st)
            ELSE IF t.err # "Ok" THEN Rej(t.err, st)
            ELSE Res("Ok", st.config,
                     [st.grids EXCEPT ![k] = [grid EXCEPT !.profits_quote = @ - withdraw_amt]],
                     t.tokens, NoFill)

withdraw_profits(st, owner, k, accts, amount) ==
    LET rd == read_grid(st.grids, k)
        grid == rd.grid
    IN  IF rd.err # "Ok" THEN Rej(rd.err, st)
        ELSE IF grid.owner # owner THEN Rej("NotGridOwner", st)
        ELSE IF accts.quote_vault # grid.quote_vault \/ accts.grid_signer # grid.signer
             THEN Rej("InvalidInstruction", st)
        ELSE
        LET withdraw_amt == IF amount = 0 THEN grid.profits_quote
                            ELSE Min(amount, grid.profits_quote)
            t == token_transfer(st.tokens, Acct("vault_quote", accts.quote_vault),
                                Acct("user_quote", owner), withdraw_amt)
        IN  IF withdraw_amt = 0 THEN Rej("NoProfits", st)
            ELSE IF t.err # "Ok" THEN Rej(t.err, st)
            ELSE Res("Ok", st.config,
                     [st.grids EXCEPT ![k] = [grid EXCEPT !.profits_quote = @ - withdraw_amt]],
                     t.tokens, NoFill)

\* withdraw_protocol_fees that does not compare the signer with config.admin
withdraw_protocol_fees_any_signer(st, admin, k, accts, amount) ==
    LET rd == read_grid(st.grids, k)
        grid == rd.grid
    IN  IF rd.err # "Ok" THEN Rej(rd.err, st)
        ELSE IF accts.quote_vault # grid.quote_vault \/ accts.grid_signer # grid.signer
             THEN Rej("InvalidInstruction", st)
        ELSE
        LET withdraw_amt == IF amount = 0 THEN grid.protocol_fees_quote
                            ELSE Min(amount, grid.protocol_fees_quote)
            t == token_transfer(st.tokens, Acct("vault_quote", accts.quote_vault),
                                Acct("user_quote", admin), withdraw_amt)
        IN  IF withdraw_amt = 0 THEN Rej("NoProfits", st)
            ELSE IF t.err # "Ok" THEN Rej(t.err, st)
            ELSE Res("Ok", st.config,
                     [st.grids EXCEPT ![k] =
                          [grid EXCEPT !.protocol_fees_quote = @ - withdraw_amt]],
                     t.tokens, NoFill)

withdraw_protocol_fees(st, admin, k, accts, amount) ==
    LET rd == read_grid(st.grids, k)
        grid == rd.grid
    IN  IF st.config.admin # admin THEN Rej("NotAdmin", st)
        ELSE IF rd.err # "Ok" THEN Rej(rd.err, st)
        ELSE IF accts.quote_vault # grid.quote_vault \/ accts.grid_signer # grid.signer
             THEN Rej("InvalidInstruction", st)
        ELSE
        LET withdraw_amt == IF amount = 0 THEN grid.protocol_fees_quote
                            ELSE Min(amount, grid.protocol_fees_quote)
            t == token_transfer(st.tokens, Acct("vault_quote", accts.quote_vault),
                                Acct("user_quote", admin), withdraw_amt)
        IN  IF withdraw_amt = 0 THEN Rej("NoProfits", st)
            ELSE IF t.err # "Ok" THEN Rej(t.err, st)
            ELSE Res("Ok", st.config,
                     [st.grids EXCEPT ![k] =
                          [grid EXCEPT !.protocol_fees_quote = @ - withdraw_amt]],
                     t.tokens, NoFill)

\* ------------------------------------------------------------------------
\* Transaction execution: the runtime keeps the accounts a handler wrote only
\* when the handler returns Ok; a failed transaction leaves every account as
\* it was before the call.
\* ------------------------------------------------------------------------
\* a runtime that keeps what a handler did also when it returns an error
process_transaction_keep_partial(st, r) ==
    [config |-> r.config, grids |-> r.grids, tokens |-> r.tokens]

process_transaction(st, r) ==
    IF r.err = "Ok" THEN [config |-> r.config, grids |-> r.grids, tokens |-> r.tokens]
    ELSE st

\* ------------------------------------------------------------------------
\* State machine
\* ------------------------------------------------------------------------
\* config, grids: the persisted Config record and the Grid record of every
\* grid account; tokens: the balance of every token account; last: the most
\* recent transaction that succeeded (instruction, signer, targets, and for a
\* fill the amounts it computed); steps: number of transactions that succeeded.
VARIABLES config, grids, tokens, last, steps

vars == <<config, grids, tokens, last, steps>>

State == [config |-> config, grids |-> grids, tokens |-> tokens]

\* inputs of the instructions
FillAmounts == {1, 30, 100}

SlotIndices == {0, 1, 2}

WithdrawAmounts == {0, 5}

Creators == {"owner"}

Takers == {"taker"}

Callers == {"owner", "taker"}

Admins == {"admin", "taker"}

GridParams(fee_bps, compound, oneshot) ==
    [fee_bps |-> fee_bps, compound |-> compound, oneshot |-> oneshot,
     base_amount_per_order |-> 100,
     ask_price0 |-> PRICE_SCALE, ask_count |-> 2, ask_strategy |-> Linear(PRICE_SCALE \div 10),
     bid_price0 |-> 9 * (PRICE_SCALE \div 10), bid_count |-> 1,
     bid_strategy |-> Linear(0 - (PRICE_SCALE \div 10))]

CreateParams ==
    { GridParams(100, FALSE, FALSE), GridParams(1000, FALSE, FALSE),
      GridParams(1000, TRUE, FALSE), GridParams(1000, FALSE, TRUE) }

FillTarget(k, a, side, order_side, order_index, base_amount) ==
    [key |-> k, accts |-> Accts(a), side |-> side, order_side |-> order_side,
     order_index |-> order_index, base_amount |-> base_amount]

FillTargets(keys) ==
    { FillTarget(k, k, s, os, i, amt) :
      k \in keys, s \in {0, 1}, os \in {0, 1}, i \in SlotIndices, amt \in FillAmounts }

\* targets of batches: every case at slot 0, and an out-of-range slot
BatchTargets(keys) ==
    { FillTarget(k, k, s, os, 0, 30) : k \in keys, s \in {0, 1}, os \in {0, 1} }
    \cup { FillTarget(k, k, 0, 0, 2, 30) : k \in keys }

Batches(keys) == { <<a, b>> : a \in BatchTargets(keys), b \in BatchTargets(keys) }

BatchCreateParams == { GridParams(1000, FALSE, FALSE), GridParams(1000, TRUE, TRUE) }

\* Ladder inputs: price0, count (0 and one more than MAX_ORDERS_PER_SIDE
\* included) and strategies of either kind on both sides of every threshold of
\* the builders (gap around 0, ratio around PRICE_SCALE, ratio 0).
LadderCounts == 0..(MAX_ORDERS_PER_SIDE + 1)

AskPrice0s == {0, 1, 2, PRICE_SCALE}

BidPrice0s == {2, 3, 9 * (PRICE_SCALE \div 10)}

AskStrategies ==
    { Linear(PRICE_SCALE \div 10), Linear(1), Linear(0), Linear(0 - 1),
      Geometry(12 * (PRICE_SCALE \div 10)), Geometry(11 * (PRICE_SCALE \div 10)),
      Geometry(PRICE_SCALE + 1), Geometry(PRICE_SCALE), Geometry(PRICE_SCALE \div 2),
      Geometry(0) }

BidStrategies ==
    { Linear(0 - (PRICE_SCALE \div 10)), Linear(0 - 1), Linear(0), Linear(1),
      Geometry(PRICE_SCALE \div 2), Geometry(9 * (PRICE_SCALE \div 10)),
      Geometry(PRICE_SCALE - 1), Geometry(PRICE_SCALE), Geometry(11 * (PRICE_SCALE \div 10)),
      Geometry(0) }

\* a grid with a ladder on one side only; base_amount_per_order is large enough
\* for a bid slot at a price below 10 to hold a positive quote
AskOnly(price0, count, strategy) ==
    [fee_bps |-> 100, compound |-> FALSE, oneshot |-> FALSE,
     base_amount_per_order |-> 100,
     ask_price0 |-> price0, ask_count |-> count, ask_strategy |-> strategy,
     bid_price0 |-> 0, bid_count |-> 0, bid_strategy |-> Linear(0)]

BidOnly(price0, count, strategy) ==
    [fee_bps |-> 100, compound |-> FALSE, oneshot |-> FALSE,
     base_amount_per_order |-> IF price0 < 10 THEN PRICE_SCALE ELSE 100,
     ask_price0 |-> 0, ask_count |-> 0, ask_strategy |-> Linear(0),
     bid_price0 |-> price0, bid_count |-> count, bid_strategy |-> strategy]

LadderParams ==
    { AskOnly(p, n, st) : p \in AskPrice0s, n \in LadderCounts, st \in AskStrategies }
    \cup { BidOnly(p, n, st) : p \in BidPrice0s, n \in LadderCounts, st \in BidStrategies }

\* submit the transaction whose handler result is r; a transaction that fails
\* changes nothing
Submit(op, signer, key, fills, r) ==
    /\ steps < MaxSteps
    /\ r.err = "Ok"
    /\ LET st == process_transaction(State, r)
       IN  /\ config' = st.config
           /\ grids' = st.grids
           /\ tokens' = st.tokens
    /\ last' = [op |-> op, signer |-> signer, key |-> key, fills |-> fills, out |-> r.out]
    /\ steps' = steps + 1

Init ==
    /\ config = [admin |-> "admin", paused |-> FALSE, protocol_fee_bps |-> 1000,
                 oneshot_protocol_fee_bps |-> 700, next_grid_id |-> 1]
    /\ grids = [k \in Keys |-> NoGrid]
    /\ tokens = [vault_base |-> [k \in Keys |-> 0],
                 vault_quote |-> [k \in Keys |-> 0],
                 user_base |-> [u \in Users |-> IF u = "owner" THEN OwnerFunds
                                                ELSE IF u = "taker" THEN TakerFunds ELSE 0],
                 user_quote |-> [u \in Users |-> IF u = "owner" THEN OwnerFunds
                                                 ELSE IF u = "taker" THEN TakerFunds ELSE 0]]
    /\ last = [op |-> "none", signer |-> "", key |-> 0, fills |-> <<>>, out |-> NoFill]
    /\ steps = 0

InitializeConfig ==
    \E a \in Admins, p \in {1000}, o \in {700} :
        Submit("InitializeConfig", a, 0, <<>>, initialize_config(State, a, p, o))

SetPause ==
    \E a \in Admins, p \in BOOLEAN :
        Submit("SetPause", a, 0, <<>>, set_pause(State, a, p))

SetProtocolFee ==
    \E a \in Admins, p \in {0, 1000} :
        Submit("SetProtocolFee", a, 0, <<>>, set_protocol_fee(State, a, p))

SetOneshotProtocolFee ==
    \E a \in Admins, p \in {700, 1000} :
        Submit("SetOneshotProtocolFee", a, 0, <<>>, set_oneshot_protocol_fee(State, a, p))

CreateGrid(keys, params) ==
    \E o \in Creators, k \in keys, p \in params :
        Submit("CreateGrid", o, k, <<p>>, create_grid(State, o, k, Accts(k), p))

FillOrder(targets) ==
    \E t \in Takers, f \in targets :
        Submit("FillOrder", t, f.key, <<f>>, fill_order(State, t, f))

FillOrders(batches) ==
    \E t \in Takers, fs \in batches :
        Submit("FillOrders", t, 0, fs, fill_orders(State, t, fs))

CancelOrder(keys) ==
    \E o \in Callers, k \in keys, s \in {0, 1}, i \in SlotIndices :
        Submit("CancelOrder", o, k, <<FillTarget(k, k, 0, s, i, 0)>>,
               cancel_order(State, o, k, Accts(k), s, i))

CancelGrid(keys) ==
    \E o \in Callers, k \in keys :
        Submit("CancelGrid", o, k, <<>>, cancel_grid(State, o, k, Accts(k)))

WithdrawProfits(keys) ==
    \E o \in Callers, k \in keys, amt \in WithdrawAmounts :
        Submit("WithdrawProfits", o, k, <<>>, withdraw_profits(State, o, k, Accts(k), amt))

WithdrawProtocolFees(keys) ==
    \E a \in Admins, k \in keys, amt \in WithdrawAmounts :
        Submit("WithdrawProtocolFees", a, k, <<>>,
               withdraw_protocol_fees(State, a, k, Accts(k), amt))

Next ==
    \/ InitializeConfig
    \/ SetPause
    \/ SetProtocolFee
    \/ SetOneshotProtocolFee
    \/ CreateGrid({1}, CreateParams)
    \/ FillOrder(FillTargets({1}))
    \/ FillOrders(Batches({1}))
    \/ CancelOrder({1})
    \/ CancelGrid({1})
    \/ WithdrawProfits({1})
    \/ WithdrawProtocolFees({1})

Spec == Init /\ [][Next]_vars

\* Two grid accounts, each with its own vaults, filled by batches that may
\* name both.
NextBatch ==
    \/ CreateGrid(Keys, BatchCreateParams)
    \/ FillOrders(Batches(Keys))
    \/ CancelGrid(Keys)

SpecBatch == Init /\ [][NextBatch]_vars

\* Grids of every ladder input, created, canceled and created again.
NextLadder ==
    \/ CreateGrid({1}, LadderParams)
    \/ CancelGrid({1})

SpecLadder == Init /\ [][NextLadder]_vars

\* Grids created on unused accounts only: the vaults of a grid hold nothing
\* but what that grid put there.  Every call that follows a creation is as in
\* Spec; the Config stays as Init leaves it.
CreateFresh(keys, params) ==
    \E o \in Creators, k \in keys, p \in params :
        /\ ~grids[k].written
        /\ tokens.vault_base[k] = 0 /\ tokens.vault_quote[k] = 0
        /\ Submit("CreateGrid", o, k, <<p>>, create_grid(State, o, k, Accts(k), p))

NextOnce ==
    \/ CreateFresh({1}, CreateParams)
    \/ FillOrder(FillTargets({1}))
    \/ FillOrders(Batches({1}))
    \/ CancelOrder({1})
    \/ CancelGrid({1})
    \/ WithdrawProfits({1})
    \/ WithdrawProtocolFees({1})

SpecOnce == Init /\ [][NextOnce]_vars

\* Transactions that may fail: every call is submitted whatever its handler
\* returns, and last records the error code too.  QuoteHeavy is a grid whose
\* second creation can pay its base deposit and not its quote deposit.
QuoteHeavy ==
    [fee_bps |-> 1000, compound |-> FALSE, oneshot |-> FALSE,
     base_amount_per_order |-> 100,
     ask_price0 |-> PRICE_SCALE, ask_count |-> 1, ask_strategy |-> Linear(PRICE_SCALE \div 10),
     bid_price0 |-> 9 * (PRICE_SCALE \div 10), bid_count |-> 3,
     bid_strategy |-> Linear(0 - (PRICE_SCALE \div 10))]

Attempt(op, signer, key, fills, r) ==
    /\ steps < MaxSteps
    /\ LET st == process_transaction(State, r)
       IN  /\ config' = st.config
           /\ grids' = st.grids
           /\ tokens' = st.tokens
    /\ last' = [op |-> op, signer |-> signer, key |-> key, fills |-> fills, out |-> r.out,
                err |-> r.err]
    /\ steps' = steps + 1

AttemptCreateGrid ==
    \E o \in Creators, p \in {GridParams(1000, FALSE, FALSE), QuoteHeavy} :
        Attempt("CreateGrid", o, 1, <<p>>, create_grid(State, o, 1, Accts(1), p))

AttemptFillOrder ==
    \E t \in Takers, f \in FillTargets({1}) :
        Attempt("FillOrder", t, 1, <<f>>, fill_order(State, t, f))

AttemptCancelOrder ==
    \E o \in Callers, s \in {0, 1}, i \in SlotIndices :
        Attempt("CancelOrder", o, 1, <<FillTarget(1, 1, 0, s, i, 0)>>,
                cancel_order(State, o, 1, Accts(1), s, i))

AttemptCancelGrid ==
    \E o \in Callers :
        Attempt("CancelGrid", o, 1, <<>>, cancel_grid(State, o, 1, Accts(1)))

AttemptWithdrawProfits ==
    \E o \in Callers, amt \in WithdrawAmounts :
        Attempt("WithdrawProfits", o, 1, <<>>, withdraw_profits(State, o, 1, Accts(1), amt))

AttemptWithdrawProtocolFees ==
    \E a \in Admins, amt \in WithdrawAmounts :
        Attempt("WithdrawProtocolFees", a, 1, <<>>,
                withdraw_protocol_fees(State, a, 1, Accts(1), amt))

NextAbort ==
    \/ AttemptCreateGrid
    \/ AttemptFillOrder
    \/ AttemptCancelOrder
    \/ AttemptCancelGrid
    \/ AttemptWithdrawProfits
    \/ AttemptWithdrawProtocolFees

SpecAbort == Init /\ [][NextAbort]_vars

\* read_state and write_state alone: a record, an account whose data is
\* shorter than, as long as or longer than the record's encoding and holds
\* zeros or stale bytes, then write_state followed by read_state.
Genesis ==
    [config |-> [admin |-> "admin", paused |-> FALSE, protocol_fee_bps |-> 1000,
                 oneshot_protocol_fee_bps |-> 700, next_grid_id |-> 1],
     grids |-> [k \in Keys |-> NoGrid],
     tokens |-> [vault_base |-> [k \in Keys |-> 0],
                 vault_quote |-> [k \in Keys |-> 0],
                 user_base |-> [u \in Users |-> IF u = "owner" THEN OwnerFunds
                                                ELSE IF u = "taker" THEN TakerFunds ELSE 0],
                 user_quote |-> [u \in Users |-> IF u = "owner" THEN OwnerFunds
                                                 ELSE IF u = "taker" THEN TakerFunds ELSE 0]]]

\* the number that stands for a user's key
UserKey(u) == IF u = "admin" THEN 1 ELSE IF u = "owner" THEN 2 ELSE 3

\* the state.rs Grid held by a grid account of the model
GridRecord(g) ==
    [n \in { GridFields[i].name : i \in DOMAIN GridFields } |->
        IF n = "signer_bump" THEN 254
        ELSE IF n = "owner" THEN UserKey(g.owner)
        ELSE g[n]]

ConfigRecords ==
    [admin : {UserKey("admin"), UserKey("taker")}, paused : BOOLEAN,
     protocol_fee_bps : {0, 1000}, oneshot_protocol_fee_bps : {700},
     next_grid_id : {1, 300}]

GridRecords ==
    { GridRecord(create_grid(Genesis, "owner", 1, Accts(1), p).grids[1]) :
      p \in CreateParams \cup {QuoteHeavy} }

Slacks == {0 - 1, 0, 1, 16}

StaleBytes == {0, BYTE - 1}

Stored(fields, record, slack, stale) ==
    [fields |-> fields, record |-> record,
     data |-> [i \in 1..(Len(to_vec(fields, record)) + slack) |-> stale]]

StateInputs ==
    { Stored(ConfigFields, c, d, b) : c \in ConfigRecords, d \in Slacks, b \in StaleBytes }
    \cup { Stored(GridFields, g, d, b) : g \in GridRecords, d \in Slacks, b \in StaleBytes }

InitState ==
    /\ config = Genesis.config
    /\ grids = Genesis.grids
    /\ tokens = Genesis.tokens
    /\ \E x \in StateInputs :
           last = [op |-> "none", signer |-> "", key |-> 0, fills |-> <<x>>,
                   out |-> [data |-> x.data]]
    /\ steps = 0

WriteState ==
    /\ last.op = "none"
    /\ LET k(w) == last' = [last EXCEPT !.op = "write_state",
                                        !.out = [data |-> w.data, err |-> w.err]]
       IN  k(write_state(last.fills[1].fields, last.out.data, last.fills[1].record))
    /\ steps' = steps + 1
    /\ UNCHANGED <<config, grids, tokens>>

ReadState ==
    /\ last.op = "write_state"
    /\ LET k(r) == last' = [last EXCEPT !.op = "read_state",
                                        !.out = [data |-> last.out.data,
                                                 err |-> last.out.err, read |-> r]]
       IN  k(read_state(last.fills[1].fields, last.out.data))
    /\ steps' = steps + 1
    /\ UNCHANGED <<config, grids, tokens>>

NextState ==
    \/ WriteState
    \/ ReadState

SpecState == InitState /\ [][NextState]_vars

\* split_fee alone, on 64-bit fees: small fees, the fees around the point
\* where total_fee * 1000 leaves the 64-bit range, and the top of the range
FeeTotals ==
    { to_le_bytes(v) : v \in {0, 1, 1000, 9999, 10000} }
    \cup { div_bytes(U64_MAX, 1000).q, div_bytes(U64_MAX, 200).q,
           sub_bytes(U64_MAX, div_bytes(U64_MAX, 1000).q, 0),
           sub_bytes(U64_MAX, to_le_bytes(1), 0), U64_MAX,
           [i \in 1..U64_BYTES |-> IF i = U64_BYTES THEN BYTE \div 2 ELSE 0] }

FeeShares == {0, 200, 500, 1000, 5000, 20000}

FeeInputs ==
    [total_fee : FeeTotals, protocol_fee_bps : FeeShares,
     oneshot_protocol_fee_bps : FeeShares, oneshot : BOOLEAN]

InitFee ==
    /\ config = [admin |-> "admin", paused |-> FALSE, protocol_fee_bps |-> 1000,
                 oneshot_protocol_fee_bps |-> 700, next_grid_id |-> 1]
    /\ grids = [k \in Keys |-> NoGrid]
    /\ tokens = [vault_base |-> [k \in Keys |-> 0],
                 vault_quote |-> [k \in Keys |-> 0],
                 user_base |-> [u \in Users |-> 0],
                 user_quote |-> [u \in Users |-> 0]]
    /\ \E x \in FeeInputs :
           last = [op |-> "none", signer |-> "", key |-> 0, fills |-> <<x>>, out |-> NoFill]
    /\ steps = 0

SplitFee ==
    /\ last.op = "none"
    /\ last' = [last EXCEPT !.op = "split_fee",
                            !.out = split_fee_u64(last.fills[1].total_fee,
                                                  last.fills[1].protocol_fee_bps,
                                                  last.fills[1].oneshot_protocol_fee_bps,
                                                  last.fills[1].oneshot)]
    /\ steps' = steps + 1
    /\ UNCHANGED <<config, grids, tokens>>

NextFee == SplitFee

SpecFee == InitFee /\ [][NextFee]_vars

\* ------------------------------------------------------------------------
\* Properties
\* ------------------------------------------------------------------------
Range(f) == { f[i] : i \in DOMAIN f }

BaseLedger(g) == SumSeq(g.ask_remaining) + SumSeq(g.bid_reverse_base)

QuoteLedger(g) ==
    SumSeq(g.ask_reverse_quote) + SumSeq(g.bid_remaining_quote)
    + g.profits_quote + g.protocol_fees_quote

AllZero(g) ==
    /\ Range(g.ask_remaining) \subseteq {0}
    /\ Range(g.ask_reverse_quote) \subseteq {0}
    /\ Range(g.bid_remaining_quote) \subseteq {0}
    /\ Range(g.bid_reverse_base) \subseteq {0}

\* one slot's notional at a price
Notional(g, price) == MulDivFloor(g.base_amount_per_order, price, PRICE_SCALE)

LastFill(side, order_side) ==
    /\ last.op \in {"FillOrder", "FillOrders"}
    /\ \E i \in 1..Len(last.fills) :
           last.fills[i].side = side /\ last.fills[i].order_side = order_side

\* C1: fund conservation -- in every reachable state the base inventories of a
\* grid do not exceed the balance of its base vault, and its quote inventories
\* plus profits_quote plus protocol_fees_quote do not exceed the balance of its
\* quote vault.
C1_FundConservation ==
    \A k \in Keys :
        /\ BaseLedger(grids[k]) <= tokens.vault_base[k]
        /\ QuoteLedger(grids[k]) <= tokens.vault_quote[k]

\* a grid that was filled, paid out profits and still carries protocol fees
C1_Witness ==
    /\ last.op = "WithdrawProfits"
    /\ grids[1].protocol_fees_quote > 0
    /\ grids[1].ask_remaining[1] < grids[1].base_amount_per_order

\* C2: on a oneshot grid every reverse inventory is 0 in every reachable state.
C2_OneshotReverseZero ==
    \A k \in Keys :
        (grids[k].written /\ grids[k].oneshot) =>
            /\ Range(grids[k].ask_reverse_quote) \subseteq {0}
            /\ Range(grids[k].bid_reverse_base) \subseteq {0}

\* C3: in a non-compound grid no ask_reverse_quote slot exceeds one slot's
\* notional at its reverse price and no bid_remaining_quote slot exceeds one
\* slot's notional at its bid price.
C3_NonCompoundCap ==
    \A k \in Keys :
        (grids[k].written /\ ~grids[k].compound) =>
            /\ \A i \in DOMAIN grids[k].ask_reverse_quote :
                   grids[k].ask_reverse_quote[i] <= Notional(grids[k], grids[k].ask_rev_prices[i])
            /\ \A i \in DOMAIN grids[k].bid_remaining_quote :
                   grids[k].bid_remaining_quote[i] <= Notional(grids[k], grids[k].bid_prices[i])

\* a forward sell fill has filled the reverse slot to its cap and the excess
\* went to profits
C3_Witness ==
    /\ LastFill(0, 0)
    /\ ~grids[1].compound
    /\ grids[1].ask_reverse_quote[1] = Notional(grids[1], grids[1].ask_rev_prices[1])
    /\ grids[1].profits_quote > 0

\* C4: once a grid record is Canceled, every later step leaves it Canceled with
\* all inventories and profits_quote at 0.
C4_CanceledTerminal ==
    [][\A k \in Keys :
           (grids[k].written /\ grids[k].status = 1) =>
               /\ grids'[k].status = 1
               /\ AllZero(grids'[k])
               /\ grids'[k].profits_quote = 0]_vars

\* the targets of a batch run one after the other as single FillOrder
\* transactions: does one of them fail?
RECURSIVE SomeTargetFails(_, _, _)
SomeTargetFails(st, taker, fills) ==
    IF fills = <<>> THEN FALSE
    ELSE LET r == fill_order(st, taker, Head(fills))
         IN  \/ r.err # "Ok"
             \/ SomeTargetFails(process_transaction(st, r), taker, Tail(fills))

\* C5: a FillOrders batch in which some target fails is rejected as a whole and
\* leaves Config, every Grid record and every token balance as before the call.
C5_BatchAllOrNothing ==
    \A t \in Takers, fs \in Batches(Keys) :
        SomeTargetFails(State, t, fs) =>
            LET r == fill_orders(State, t, fs)
            IN  /\ r.err # "Ok"
                /\ process_transaction(State, r) = State

\* a batch over two grids whose first target the handler has already written
\* when its second target, an out-of-range slot of the other grid, fails
C5_Witness ==
    \E fs \in Batches(Keys) :
        LET r == fill_orders(State, "taker", fs)
        IN  /\ fs[1].key # fs[2].key
            /\ fill_order(State, "taker", fs[1]).err = "Ok"
            /\ r.err = "InvalidOrderIndex"
            /\ r.grids # grids
            /\ r.tokens # tokens

\* the grid before and after a single FillOrder of one case, for the inputs the
\* properties below range over
FillOf(k, side, order_side, idx, req) ==
    fill_order(State, "taker", FillTarget(k, k, side, order_side, idx, req))

\* the preconditions under which a fill reaches the arithmetic of its case
Fillable(k, slots, idx) ==
    /\ grids[k].written
    /\ is_active(grids[k])
    /\ ~config.paused
    /\ idx < Len(slots)

\* C6: a successful Buy x Ask fill has fill_base = min(ask_remaining, requested),
\* quote_gross = floor(fill_base * ask_price / 1e9), total_fee =
\* floor(quote_gross * fee_bps / 10000); it takes fill_base off ask_remaining and
\* credits quote_gross + maker_fee to ask_reverse_quote, capped at one slot's
\* notional at the reverse price in non-compound mode with the excess going to
\* profits_quote.  On a fresh non-compound grid with base_amount_per_order = 100,
\* ask_prices[0] = 1e9 and fee_bps = 100, filling 100 leaves ask_remaining[0] = 0
\* with quote_gross = 100, total_fee = 1 and ask_reverse_quote[0] =
\* min(100 + maker_fee, cap).
C6_BuyAskFill ==
    \A k \in {1}, idx \in SlotIndices, req \in FillAmounts :
        LET r == FillOf(k, 0, 0, idx, req)
            g == grids[k]
            h == r.grids[k]
            fill_base == Min(g.ask_remaining[idx + 1], req)
            quote_gross == MulDivFloor(fill_base, g.ask_prices[idx + 1], PRICE_SCALE)
            total_fee == (quote_gross * g.fee_bps) \div 10000
            cap == Notional(g, g.ask_rev_prices[idx + 1])
            t == g.ask_reverse_quote[idx + 1] + quote_gross + r.out.maker_fee
        IN  r.err = "Ok" =>
              /\ r.out.fill_base = fill_base
              /\ r.out.quote_gross = quote_gross
              /\ r.out.total_fee = total_fee
              /\ h.ask_remaining[idx + 1] = g.ask_remaining[idx + 1] - fill_base
              /\ g.compound =>
                    /\ h.ask_reverse_quote[idx + 1] = t
                    /\ h.profits_quote = g.profits_quote
              /\ ~g.compound =>
                    /\ h.ask_reverse_quote[idx + 1] = Min(t, cap)
                    /\ h.profits_quote = g.profits_quote + (t - Min(t, cap))
              /\ (/\ ~g.compound /\ g.fee_bps = 100 /\ g.base_amount_per_order = 100
                  /\ g.ask_prices[1] = 1000000000
                  /\ g.ask_remaining[1] = 100 /\ g.ask_reverse_quote[1] = 0
                  /\ idx = 0 /\ req = 100) =>
                    /\ h.ask_remaining[1] = 0
                    /\ r.out.quote_gross = 100
                    /\ r.out.total_fee = 1
                    /\ h.ask_reverse_quote[1] = Min(100 + r.out.maker_fee, cap)

\* the fill of the example has happened
C6_Witness ==
    /\ last.op = "FillOrder"
    /\ last.fills[1].side = 0 /\ last.fills[1].order_side = 0
    /\ last.fills[1].order_index = 0 /\ last.fills[1].base_amount = 100
    /\ last.out.quote_gross = 100 /\ last.out.total_fee = 1
    /\ grids[1].fee_bps = 100 /\ ~grids[1].compound
    /\ grids[1].ask_remaining[1] = 0
    /\ grids[1].ask_reverse_quote[1] = 90
    /\ grids[1].profits_quote = 11

\* the request converted to quote at a price and clamped to the remaining quote
ClampedBase(req, price, remaining) ==
    IF MulDivFloor(req, price, PRICE_SCALE) > remaining
    THEN MulDivFloor(remaining, PRICE_SCALE, price) ELSE req

ClampedQuote(req, price, remaining) ==
    IF MulDivFloor(req, price, PRICE_SCALE) > remaining
    THEN remaining ELSE MulDivFloor(req, price, PRICE_SCALE)

\* C7: a Sell x Bid fill converts the request to cost at bid_prices[idx], clamps
\* quote_gross to bid_remaining_quote and fill_base to
\* floor(remaining * 1e9 / price) when the cost exceeds the remaining quote, is
\* rejected with InsufficientLiquidity when fill_base or quote_gross is 0, and
\* otherwise takes quote_gross (non-compound) or quote_gross - maker_fee
\* (compound) off bid_remaining_quote, adds fill_base to bid_reverse_base and, in
\* non-compound mode, adds maker_fee to profits_quote.
C7_SellBidFill ==
    \A k \in {1}, idx \in SlotIndices, req \in FillAmounts :
        Fillable(k, grids[k].bid_remaining_quote, idx) =>
        LET r == FillOf(k, 1, 1, idx, req)
            g == grids[k]
            h == r.grids[k]
            fill_base == ClampedBase(req, g.bid_prices[idx + 1], g.bid_remaining_quote[idx + 1])
            quote_gross == ClampedQuote(req, g.bid_prices[idx + 1], g.bid_remaining_quote[idx + 1])
        IN  /\ (fill_base = 0 \/ quote_gross = 0) => r.err = "InsufficientLiquidity"
            /\ r.err = "Ok" =>
                 /\ r.out.fill_base = fill_base
                 /\ r.out.quote_gross = quote_gross
                 /\ h.bid_reverse_base[idx + 1] = g.bid_reverse_base[idx + 1] + fill_base
                 /\ h.bid_remaining_quote[idx + 1] =
                        g.bid_remaining_quote[idx + 1]
                        - (IF g.compound THEN quote_gross - r.out.maker_fee ELSE quote_gross)
                 /\ h.profits_quote =
                        g.profits_quote + (IF g.compound THEN 0 ELSE r.out.maker_fee)

\* a clamped forward buy fill with a maker fee has happened on a compound grid
C7_Witness ==
    /\ last.op = "FillOrder"
    /\ last.fills[1].side = 1 /\ last.fills[1].order_side = 1
    /\ last.out.fill_base < last.fills[1].base_amount
    /\ last.out.maker_fee > 0
    /\ grids[1].compound
    /\ grids[1].bid_remaining_quote[1] = last.out.maker_fee

C9_SellAskFill ==
    \A k \in {1}, idx \in SlotIndices, req \in FillAmounts :
        Fillable(k, grids[k].ask_reverse_quote, idx) =>
        LET r == FillOf(k, 1, 0, idx, req)
            g == grids[k]
            h == r.grids[k]
            fill_base == ClampedBase(req, g.ask_rev_prices[idx + 1], g.ask_reverse_quote[idx + 1])
            quote_gross == ClampedQuote(req, g.ask_rev_prices[idx + 1], g.ask_reverse_quote[idx + 1])
        IN  /\ (~g.oneshot /\ (fill_base = 0 \/ quote_gross = 0)) => r.err = "InsufficientLiquidity"
            /\ r.err = "Ok" =>
                 /\ r.out.fill_base = fill_base
                 /\ r.out.quote_gross = quote_gross
                 /\ h.ask_remaining[idx + 1] = g.ask_remaining[idx + 1] + fill_base
                 /\ h.ask_reverse_quote[idx + 1] =
                        g.ask_reverse_quote[idx + 1]
                        - (IF g.compound THEN quote_gross - r.out.maker_fee ELSE quote_gross)
                 /\ h.profits_quote =
                        g.profits_quote + (IF g.compound THEN 0 ELSE r.out.maker_fee)

\* a clamped buy-back fill has happened at the reverse price
C9_Witness ==
    /\ last.op = "FillOrder"
    /\ last.fills[1].side = 1 /\ last.fills[1].order_side = 0
    /\ last.fills[1].order_index = 0
    /\ last.out.fill_base < last.fills[1].base_amount
    /\ last.out.quote_gross > 0
    /\ grids[1].ask_remaining[1] > 0

\* a target names a reverse order (Buy x Bid or Sell x Ask)
IsReverse(f) == f.side # f.order_side

\* C10: on a oneshot grid every reverse fill, single or in a batch, is rejected
\* and leaves Config, the grids and all balances unchanged.
C10_OneshotRejectsReverse ==
    /\ \A f \in FillTargets({1}) :
           (grids[f.key].written /\ grids[f.key].oneshot /\ IsReverse(f)) =>
               LET r == fill_order(State, "taker", f)
               IN  r.err # "Ok" /\ process_transaction(State, r) = State
    /\ \A fs \in Batches({1}) :
           (\E i \in 1..Len(fs) :
                grids[fs[i].key].written /\ grids[fs[i].key].oneshot /\ IsReverse(fs[i])) =>
               LET r == fill_orders(State, "taker", fs)
               IN  r.err # "Ok" /\ process_transaction(State, r) = State

\* a oneshot grid holds reverse inventory on both sides and the reverse fills
\* that would consume it are rejected
C10_Witness ==
    /\ grids[1].written /\ grids[1].oneshot /\ is_active(grids[1]) /\ ~config.paused
    /\ grids[1].ask_reverse_quote[1] > 0
    /\ grids[1].bid_reverse_base[1] > 0
    /\ FillOf(1, 1, 0, 0, 30).err = "InvalidInstruction"
    /\ FillOf(1, 0, 1, 0, 30).err = "InvalidInstruction"

\* the slot vector a fill case draws its inventory from
Inventory(g, side, order_side) ==
    IF side = 0 /\ order_side = 0 THEN g.ask_remaining
    ELSE IF side = 0 /\ order_side = 1 THEN g.bid_reverse_base
    ELSE IF side = 1 /\ order_side = 1 THEN g.bid_remaining_quote
    ELSE g.ask_reverse_quote

\* the two common failure modes of one fill case on grid k, for every slot index
\* and amount: the error code, and the transaction leaving the state as it was
CommonFailures(k, side, order_side) ==
    \A idx \in SlotIndices, req \in FillAmounts :
        LET r == FillOf(k, side, order_side, idx, req)
            inv == Inventory(grids[k], side, order_side)
        IN  /\ idx >= Len(inv) =>
                /\ r.err = "InvalidOrderIndex"
                /\ process_transaction(State, r) = State
            /\ (idx < Len(inv) /\ inv[idx + 1] = 0) =>
                /\ r.err = "InsufficientLiquidity"
                /\ process_transaction(State, r) = State

\* C11 as stated: on an active grid, in every fill case, an out-of-range slot
\* index is rejected with InvalidOrderIndex and a slot with no inventory with
\* InsufficientLiquidity, nothing changing.
C11_AsStated ==
    \A k \in {1}, side \in {0, 1}, order_side \in {0, 1} :
        (grids[k].written /\ is_active(grids[k]) /\ ~config.paused) =>
            CommonFailures(k, side, order_side)

\* C11, amended: the same, except that on a oneshot grid the two reverse cases
\* are rejected with InvalidInstruction before the slot is looked at.
C11_CommonFailures ==
    \A k \in {1}, side \in {0, 1}, order_side \in {0, 1} :
        (/\ grids[k].written /\ is_active(grids[k]) /\ ~config.paused
         /\ ~(grids[k].oneshot /\ side # order_side)) =>
            CommonFailures(k, side, order_side)

\* an emptied ask slot and an out-of-range index are both refused
C11_Witness ==
    /\ LastFill(0, 0)
    /\ grids[1].written /\ is_active(grids[1]) /\ ~config.paused
    /\ grids[1].ask_remaining[1] = 0
    /\ FillOf(1, 0, 0, 0, 30).err = "InsufficientLiquidity"
    /\ FillOf(1, 0, 0, 2, 30).err = "InvalidOrderIndex"
    /\ FillOf(1, 1, 1, 1, 30).err = "InvalidOrderIndex"

\* strictly increasing (ask) or strictly decreasing (bid), every price positive
Monotone(prices, is_ask) ==
    /\ \A i \in DOMAIN prices : prices[i] > 0
    /\ \A i \in DOMAIN prices :
           i > 1 => IF is_ask THEN prices[i] > prices[i - 1] ELSE prices[i] < prices[i - 1]

\* C12: in the grid CreateGrid has just written each ladder has exactly count
\* entries, count <= MAX_ORDERS_PER_SIDE, every price > 0, the ask prices
\* strictly increasing and the bid prices strictly decreasing; the ladders
\* stay so for as long as the account exists.
C12_LadderMonotone ==
    grids[1].written =>
        /\ Monotone(grids[1].ask_prices, TRUE)
        /\ Monotone(grids[1].bid_prices, FALSE)
        /\ last.op = "CreateGrid" =>
              /\ Len(grids[1].ask_prices) = last.fills[1].ask_count
              /\ Len(grids[1].bid_prices) = last.fills[1].bid_count
              /\ last.fills[1].ask_count <= MAX_ORDERS_PER_SIDE
              /\ last.fills[1].bid_count <= MAX_ORDERS_PER_SIDE

\* a Geometry ask ladder of three slots has been created
C12_Witness ==
    /\ last.op = "CreateGrid"
    /\ last.fills[1].ask_strategy = Geometry(1100000000)
    /\ grids[1].ask_prices = <<1000000000, 1100000000, 1210000000>>

\* CreateGrid of params on grid account 1 by the owner, in the current state
CreateOf(p) == create_grid(State, "owner", 1, Accts(1), p)

\* a sign or ratio the ladder rules exclude
InvalidStep(strategy, is_ask) ==
    IF strategy.kind = "Linear"
    THEN (is_ask /\ strategy.gap <= 0) \/ (~is_ask /\ strategy.gap >= 0)
    ELSE \/ is_ask /\ strategy.ratio_x1e9 <= PRICE_SCALE
         \/ ~is_ask /\ (strategy.ratio_x1e9 = 0 \/ strategy.ratio_x1e9 >= PRICE_SCALE)

\* C13: for a side with count from 1 to MAX_ORDERS_PER_SIDE, CreateGrid fails
\* when that side's strategy is Linear with gap <= 0 (ask) or gap >= 0 (bid), or
\* Geometry with ratio <= 1e9 (ask) or ratio = 0 or ratio >= 1e9 (bid).
C13_InvalidStepRejected ==
    \A p \in LadderParams :
        \/ /\ p.ask_count \in 1..MAX_ORDERS_PER_SIDE
           /\ InvalidStep(p.ask_strategy, TRUE)
        \/ /\ p.bid_count \in 1..MAX_ORDERS_PER_SIDE
           /\ InvalidStep(p.bid_strategy, FALSE)
        => CreateOf(p).err # "Ok"

\* the reverse ladder the claim describes for a forward ladder built from
\* price0 by strategy: one step before price0, then the forward ladder shifted
ExpectedReverse(price0, strategy, prices) ==
    [i \in DOMAIN prices |->
        IF i > 1 THEN prices[i - 1]
        ELSE IF strategy.kind = "Linear" THEN price0 - strategy.gap
        ELSE MulDivFloor(price0, PRICE_SCALE, strategy.ratio_x1e9)]

\* Scenario A, and its Geometry counterpart with ratio 1.1
ScenarioA == AskOnly(1000000000, 3, Linear(100000000))

ScenarioAGeometry == AskOnly(1000000000, 3, Geometry(1100000000))

\* C14: in the grid CreateGrid has just written, each reverse ladder is as long
\* as its forward ladder, reverse[i] = forward[i-1] for i > 0, and reverse[0] is
\* price0 - gap (Linear) or floor(price0 * 1e9 / ratio) (Geometry); Scenario A
\* gives ask_prices [1.0e9, 1.1e9, 1.2e9] and ask_rev_prices [0.9e9, 1.0e9, 1.1e9].
C14_ReverseLadder ==
    (last.op = "CreateGrid") =>
        LET p == last.fills[1]
            g == grids[1]
        IN  /\ Len(g.ask_rev_prices) = Len(g.ask_prices)
            /\ Len(g.bid_rev_prices) = Len(g.bid_prices)
            /\ g.ask_rev_prices = ExpectedReverse(p.ask_price0, p.ask_strategy, g.ask_prices)
            /\ g.bid_rev_prices = ExpectedReverse(p.bid_price0, p.bid_strategy, g.bid_prices)
            /\ p = ScenarioA =>
                   /\ g.ask_prices = <<1000000000, 1100000000, 1200000000>>
                   /\ g.ask_rev_prices = <<900000000, 1000000000, 1100000000>>
            /\ p = ScenarioAGeometry =>
                   /\ g.ask_prices = <<1000000000, 1100000000, 1210000000>>
                   /\ g.ask_rev_prices = <<909090909, 1000000000, 1100000000>>

\* Scenario A has been created
C14_Witness ==
    /\ last.op = "CreateGrid"
    /\ last.fills[1] = ScenarioA
    /\ grids[1].written
    /\ Len(grids[1].ask_rev_prices) = 3

\* C15: in every grid CreateGrid has written, at every slot the ask reverse
\* price is strictly below the ask price and the bid reverse price strictly
\* above the bid price.
C15_ReverseStrictlyInside ==
    grids[1].written =>
        /\ \A i \in DOMAIN grids[1].ask_prices :
               grids[1].ask_rev_prices[i] < grids[1].ask_prices[i]
        /\ \A i \in DOMAIN grids[1].bid_prices :
               grids[1].bid_rev_prices[i] > grids[1].bid_prices[i]

\* x + y + carry, with one more byte than x when the sum needs it
RECURSIVE add_bytes(_, _, _)
add_bytes(x, y, carry) ==
    IF x = <<>> THEN IF carry = 0 THEN <<>> ELSE <<carry>>
    ELSE LET k(c) == <<c % BYTE>> \o add_bytes(Tail(x), Tail(y), c \div BYTE)
         IN  k(Head(x) + Head(y) + carry)

IsU64(x) == Len(x) = U64_BYTES /\ \A i \in DOMAIN x : x[i] \in 0..(BYTE - 1)

\* the share split_fee applies
ClampedShare(x) ==
    Min(IF x.oneshot THEN x.oneshot_protocol_fee_bps ELSE x.protocol_fee_bps,
        MAX_PROTOCOL_FEE_BPS)

\* C16: for every total_fee and every pair of shares split_fee returns two
\* 64-bit amounts with protocol_fee + maker_fee = total_fee, and (0, 0) when
\* total_fee = 0; the unit tests' splits come out as 20 + 980 and 100 + 900.
C16_SplitComplete ==
    (last.op = "split_fee") =>
        LET x == last.fills[1]
            r == last.out
        IN  /\ IsU64(r[1]) /\ IsU64(r[2])
            /\ add_bytes(r[1], r[2], 0) = x.total_fee
            /\ x.total_fee = to_le_bytes(0) => r = <<to_le_bytes(0), to_le_bytes(0)>>
            /\ (x.total_fee = to_le_bytes(1000) /\ ClampedShare(x) = 200) =>
                   r = <<to_le_bytes(20), to_le_bytes(980)>>
            /\ (x.total_fee = to_le_bytes(1000) /\ ~x.oneshot /\ x.protocol_fee_bps = 5000) =>
                   r = <<to_le_bytes(100), to_le_bytes(900)>>

\* the largest 64-bit fee has been split under a share above the maximum
C16_Witness ==
    /\ last.op = "split_fee"
    /\ last.fills[1].total_fee = U64_MAX
    /\ last.fills[1].protocol_fee_bps = 20000
    /\ ~last.fills[1].oneshot
    /\ last.out[1] # to_le_bytes(0)
    /\ last.out[2] # to_le_bytes(0)

\* x without its most significant zero bytes
RECURSIVE trim(_)
trim(x) ==
    IF x = <<>> \/ x[Len(x)] # 0 THEN x ELSE trim(SubSeq(x, 1, Len(x) - 1))

\* C17: for every 64-bit total_fee, protocol_fee = floor(total_fee * s / 10000)
\* with s the clamped share, also when total_fee * s exceeds the 64-bit range.
C17_ProtocolFeeExact ==
    (last.op = "split_fee") =>
        trim(last.out[1])
            = trim(div_bytes(mul_bytes(last.fills[1].total_fee,
                                       ClampedShare(last.fills[1]), 0), 10000).q)

\* CancelOrder of slot idx of a side of grid 1 by its owner, in the current state
CancelOf(side, idx) == cancel_order(State, "owner", 1, Accts(1), side, idx)

\* the base and the quote inventory of slot idx (0-based) of a side
SlotBase(g, side, idx) ==
    IF side = 0 THEN g.ask_remaining[idx + 1] ELSE g.bid_reverse_base[idx + 1]

SlotQuote(g, side, idx) ==
    IF side = 0 THEN g.ask_reverse_quote[idx + 1] ELSE g.bid_remaining_quote[idx + 1]

\* grid g with both inventories of the slot at 0 and nothing else touched
SlotCleared(g, side, idx) ==
    IF side = 0
    THEN [g EXCEPT !.ask_remaining[idx + 1] = 0, !.ask_reverse_quote[idx + 1] = 0]
    ELSE [g EXCEPT !.bid_remaining_quote[idx + 1] = 0, !.bid_reverse_base[idx + 1] = 0]

\* the balances after base and quote have gone from the vaults of grid 1 to the owner
Refunded(t, base, quote) ==
    [t EXCEPT !.vault_base[1] = @ - base, !.user_base["owner"] = @ + base,
              !.vault_quote[1] = @ - quote, !.user_quote["owner"] = @ + quote]

\* C18: CancelOrder on a slot with inventory refunds exactly the slot's
\* forward and reverse inventories to the owner and sets both to 0, leaving
\* every other slot, profits_quote and protocol_fees_quote as they were; on a
\* slot whose inventories are both 0 it is rejected with InsufficientLiquidity
\* and nothing changes, so right after a CancelOrder the same one is rejected.
C18_CancelOrder ==
    /\ \A side \in {0, 1}, idx \in SlotIndices :
           (grids[1].written /\ idx < Len(Inventory(grids[1], side, side))) =>
               LET r == CancelOf(side, idx)
                   base == SlotBase(grids[1], side, idx)
                   quote == SlotQuote(grids[1], side, idx)
               IN  IF base = 0 /\ quote = 0
                   THEN /\ r.err = "InsufficientLiquidity"
                        /\ process_transaction(State, r) = State
                   ELSE /\ r.err = "Ok"
                        /\ r.config = config
                        /\ r.grids = [grids EXCEPT ![1] = SlotCleared(grids[1], side, idx)]
                        /\ r.tokens = Refunded(tokens, base, quote)
    /\ (last.op = "CancelOrder") =>
           /\ SlotBase(grids[1], last.fills[1].order_side, last.fills[1].order_index) = 0
           /\ SlotQuote(grids[1], last.fills[1].order_side, last.fills[1].order_index) = 0
           /\ CancelOf(last.fills[1].order_side, last.fills[1].order_index).err
                  = "InsufficientLiquidity"

\* ask slot 0 was partly bought by the taker and then canceled: its rest and
\* the quote held for its buy-back went to the owner, ask slot 1 is untouched
C18_Witness ==
    /\ last.op = "CancelOrder"
    /\ last.fills[1].order_side = 0 /\ last.fills[1].order_index = 0
    /\ tokens.user_base["taker"] > TakerFunds
    /\ grids[1].ask_remaining = <<0, grids[1].base_amount_per_order>>
    /\ grids[1].ask_reverse_quote = <<0, 0>>
    /\ tokens.vault_base[1] = grids[1].base_amount_per_order

\* CancelGrid of grid 1 by its owner, in the current state
CancelGridOf == cancel_grid(State, "owner", 1, Accts(1))

\* grid g after a cancel: no inventory, no profits, status Canceled
GridCleared(g) ==
    [g EXCEPT !.ask_remaining = [i \in DOMAIN @ |-> 0],
              !.ask_reverse_quote = [i \in DOMAIN @ |-> 0],
              !.bid_remaining_quote = [i \in DOMAIN @ |-> 0],
              !.bid_reverse_base = [i \in DOMAIN @ |-> 0],
              !.profits_quote = 0,
              !.status = 1]

\* C19: CancelGrid on a grid that is not Active is rejected with GridCanceled;
\* on an Active grid it refunds to the owner base = sum of ask_remaining + sum
\* of bid_reverse_base and quote = sum of ask_reverse_quote + sum of
\* bid_remaining_quote + profits_quote, zeroes every inventory and
\* profits_quote, sets status to Canceled and leaves protocol_fees_quote alone.
C19_CancelGrid ==
    grids[1].written =>
        LET r == CancelGridOf
            g == grids[1]
        IN  IF g.status # 0
            THEN /\ r.err = "GridCanceled"
                 /\ process_transaction(State, r) = State
            ELSE /\ r.err = "Ok"
                 /\ r.config = config
                 /\ r.grids = [grids EXCEPT ![1] = GridCleared(g)]
                 /\ r.grids[1].protocol_fees_quote = g.protocol_fees_quote
                 /\ r.tokens = Refunded(tokens,
                                        SumSeq(g.ask_remaining) + SumSeq(g.bid_reverse_base),
                                        SumSeq(g.ask_reverse_quote)
                                            + SumSeq(g.bid_remaining_quote) + g.profits_quote)

\* a grid that had earned fees has been canceled: only the protocol's fees
\* are left in its vaults, and a second CancelGrid is refused
C19_Witness ==
    /\ last.op = "CancelGrid"
    /\ grids[1].status = 1
    /\ grids[1].profits_quote = 0
    /\ grids[1].protocol_fees_quote > 0
    /\ tokens.vault_quote[1] = grids[1].protocol_fees_quote
    /\ tokens.vault_base[1] = 0
    /\ CancelGridOf.err = "GridCanceled"

\* the amounts a withdrawal may name: 0 for everything, amounts below and
\* above the accumulators the fills of the model build up
AmountsAsked == {0, 1, 5, 1000}

\* the amount a withdrawal of amount from an accumulator pays out
Withdrawn(amount, accumulator) ==
    IF amount = 0 THEN accumulator
    ELSE IF amount < accumulator THEN amount ELSE accumulator

\* the balances after w has gone from the quote vault of grid 1 to a user
PaidOut(t, user, w) ==
    [t EXCEPT !.vault_quote[1] = @ - w, !.user_quote[user] = @ + w]

\* C20: WithdrawProfits(amount) and WithdrawProtocolFees(amount) pay out w =
\* the whole accumulator when amount = 0 and min(amount, accumulator)
\* otherwise; with w = 0 the call is rejected with NoProfits and nothing
\* changes; otherwise exactly w leaves the quote vault for the caller and only
\* the addressed accumulator decreases, by exactly w.  The callers are the
\* grid's owner and the config's admin.
C20_Withdrawals ==
    \A amount \in AmountsAsked :
        grids[1].written =>
            LET g == grids[1]
                p == withdraw_profits(State, "owner", 1, Accts(1), amount)
                wp == Withdrawn(amount, g.profits_quote)
                f == withdraw_protocol_fees(State, config.admin, 1, Accts(1), amount)
                wf == Withdrawn(amount, g.protocol_fees_quote)
            IN  /\ IF wp = 0
                   THEN p.err = "NoProfits" /\ process_transaction(State, p) = State
                   ELSE /\ p.err = "Ok"
                        /\ p.config = config
                        /\ p.grids = [grids EXCEPT ![1].profits_quote = @ - wp]
                        /\ p.tokens = PaidOut(tokens, "owner", wp)
                /\ IF wf = 0
                   THEN f.err = "NoProfits" /\ process_transaction(State, f) = State
                   ELSE /\ f.err = "Ok"
                        /\ f.config = config
                        /\ f.grids = [grids EXCEPT ![1].protocol_fees_quote = @ - wf]
                        /\ f.tokens = PaidOut(tokens, config.admin, wf)

\* part of the profits has been withdrawn: the rest and the protocol's fees
\* are still booked
C20_Witness ==
    /\ last.op = "WithdrawProfits"
    /\ grids[1].profits_quote > 0
    /\ grids[1].protocol_fees_quote > 0
    /\ Withdrawn(1000, grids[1].profits_quote) = grids[1].profits_quote
    /\ withdraw_profits(State, "owner", 1, Accts(1), 1).err = "Ok"

\* the balances after the owner has deposited base and quote into the vaults
\* of grid 1
Deposited(t, base, quote) ==
    [t EXCEPT !.user_base["owner"] = @ - base, !.vault_base[1] = @ + base,
              !.user_quote["owner"] = @ - quote, !.vault_quote[1] = @ + quote]

\* the record of a grid as CreateGrid of params p leaves it
FreshlyCreated(g, p) ==
    /\ g.written /\ g.status = 0
    /\ g.profits_quote = 0 /\ g.protocol_fees_quote = 0
    /\ g.base_amount_per_order = p.base_amount_per_order
    /\ g.ask_remaining = [i \in 1..p.ask_count |-> p.base_amount_per_order]
    /\ g.ask_reverse_quote = [i \in 1..p.ask_count |-> 0]
    /\ g.bid_remaining_quote =
           [i \in 1..p.bid_count |->
               MulDivFloor(p.base_amount_per_order, g.bid_prices[i], PRICE_SCALE)]
    /\ g.bid_reverse_base = [i \in 1..p.bid_count |-> 0]

\* C21: a successful CreateGrid leaves an Active grid with profits_quote =
\* protocol_fees_quote = 0, ask_remaining[i] = base_amount_per_order,
\* ask_reverse_quote[i] = 0, bid_remaining_quote[i] = floor(base_amount_per_order
\* * bid_prices[i] / 1e9), bid_reverse_base[i] = 0, and moves exactly
\* base_amount_per_order * ask_count base and the sum of bid_remaining_quote
\* quote from the owner into the vaults.
C21_CreateGridInitial ==
    [][(last'.op = "CreateGrid" /\ steps' # steps) =>
           /\ FreshlyCreated(grids'[1], last'.fills[1])
           /\ tokens' = Deposited(tokens,
                                  last'.fills[1].base_amount_per_order * last'.fills[1].ask_count,
                                  SumSeq(grids'[1].bid_remaining_quote))
           /\ grids'[1].bid_prices = <<900000000, 899999999>> =>
                  grids'[1].bid_remaining_quote = <<90, 89>>]_vars

\* a bid ladder whose second slot's funding is rounded down has been created
C21_Witness ==
    /\ last.op = "CreateGrid"
    /\ grids[1].bid_prices = <<900000000, 899999999>>
    /\ grids[1].bid_remaining_quote = <<90, 89>>
    /\ tokens.vault_quote[1] = 179
    /\ tokens.user_quote["owner"] = OwnerFunds - 179

\* C22: Config.next_grid_id never decreases, whatever the operation
\* (InitializeConfig included), and a successful CreateGrid gives the grid the
\* counter's value before the call and raises the counter by exactly 1.
C22_NextGridIdMonotone ==
    [][/\ config'.next_grid_id >= config.next_grid_id
       /\ (last'.op = "CreateGrid" /\ steps' # steps) =>
              /\ grids'[last'.key].id = config.next_grid_id
              /\ config'.next_grid_id = config.next_grid_id + 1]_vars

\* the settings of a Config that only its admin may change
AdminSettings(c) == <<c.admin, c.paused, c.protocol_fee_bps, c.oneshot_protocol_fee_bps>>

\* C23: once the Config is initialized, its admin, paused flag and two protocol
\* fee settings change only in a step signed by the Config's current admin.
C23_AdminOnlyConfig ==
    [][AdminSettings(config') # AdminSettings(config) => last'.signer = config.admin]_vars

C25_RoundTrip ==
    (last.op = "read_state") =>
        LET x == last.fills[1]
            enc == to_vec(x.fields, x.record)
        IN  IF Len(enc) <= Len(x.data)
            THEN /\ last.out.err = "Ok"
                 /\ last.out.data =
                        [i \in 1..Len(x.data) |-> IF i <= Len(enc) THEN enc[i] ELSE 0]
                 /\ last.out.read.err = "Ok"
                 /\ last.out.read.val = x.record
            ELSE /\ last.out.err = "AccountDataTooSmall"
                 /\ last.out.data = x.data

\* C26: CancelOrder, CancelGrid and WithdrawProfits signed by anyone other
\* than grid.owner fail with NotGridOwner, and WithdrawProtocolFees signed by
\* anyone other than Config.admin (the grid owner included) fails with
\* NotAdmin; the grid and every balance stay as they were.
C26_OwnerAndAdminOnly ==
    grids[1].written =>
        \A u \in Users :
            /\ u # grids[1].owner =>
                   /\ \A side \in {0, 1}, idx \in SlotIndices :
                          LET r == cancel_order(State, u, 1, Accts(1), side, idx)
                          IN  r.err = "NotGridOwner" /\ process_transaction(State, r) = State
                   /\ LET r == cancel_grid(State, u, 1, Accts(1))
                      IN  r.err = "NotGridOwner" /\ process_transaction(State, r) = State
                   /\ \A amount \in AmountsAsked :
                          LET r == withdraw_profits(State, u, 1, Accts(1), amount)
                          IN  r.err = "NotGridOwner" /\ process_transaction(State, r) = State
            /\ u # config.admin =>
                   \A amount \in AmountsAsked :
                       LET r == withdraw_protocol_fees(State, u, 1, Accts(1), amount)
                       IN  r.err = "NotAdmin" /\ process_transaction(State, r) = State

\* a grid holds inventory, profits and protocol fees; the taker cannot take
\* any of them and the owner cannot take the protocol's fees
C26_Witness ==
    /\ grids[1].written /\ grids[1].owner = "owner" /\ config.admin = "admin"
    /\ grids[1].profits_quote > 0
    /\ grids[1].protocol_fees_quote > 0
    /\ cancel_grid(State, "owner", 1, Accts(1)).err = "Ok"
    /\ cancel_grid(State, "taker", 1, Accts(1)).err = "NotGridOwner"
    /\ withdraw_profits(State, "taker", 1, Accts(1), 0).err = "NotGridOwner"
    /\ withdraw_protocol_fees(State, "admin", 1, Accts(1), 0).err = "Ok"
    /\ withdraw_protocol_fees(State, "owner", 1, Accts(1), 0).err = "NotAdmin"

\* the accounts of grid k with one of the three replaced by that of grid other
Mismatched(k, other) ==
    { [Accts(k) EXCEPT !.base_vault = other],
      [Accts(k) EXCEPT !.quote_vault = other],
      [Accts(k) EXCEPT !.grid_signer = other] }

\* the targets of grid k that name one account of the other grid
MismatchedTargets(k, other) ==
    { [FillTarget(k, k, s, os, i, amt) EXCEPT !.accts = a] :
      a \in Mismatched(k, other), s \in {0, 1}, os \in {0, 1},
      i \in SlotIndices, amt \in FillAmounts }

\* a few of them, one for each replaced account, to put after a good target
MismatchedSecond(k, other) ==
    { [FillTarget(k, k, 0, 0, 0, 30) EXCEPT !.accts = a] : a \in Mismatched(k, other) }

\* a failed call r whose transaction leaves the state as it was, the error
\* being that of assert_address_matches on an active grid of an unpaused program
MismatchRejected(k, r) ==
    /\ r.err # "Ok"
    /\ process_transaction(State, r) = State
    /\ (is_active(grids[k]) /\ ~config.paused) => r.err = "InvalidInstruction"

\* C27: a FillOrder, or a FillOrders batch with such a target alone or after a
\* good target, whose base vault, quote vault or grid signer is not the one the
\* Grid records fails; the handler of FillOrder has moved nothing, the
\* transaction leaves every balance and every Grid as it was, and on an active
\* grid of an unpaused program the error is InvalidInstruction.
C27_VaultMismatchRejected ==
    \A k \in Keys :
        grids[k].written =>
            \A t \in Takers :
                /\ \A f \in MismatchedTargets(k, 3 - k) :
                       LET unmoved(r) == r.tokens = tokens /\ r.grids = grids /\ MismatchRejected(k, r)
                       IN  /\ unmoved(fill_order(State, t, f))
                           /\ unmoved(fill_orders(State, t, <<f>>))
                /\ \A f \in MismatchedSecond(k, 3 - k), g \in BatchTargets(Keys) :
                       LET failed(r) == r.err # "Ok" /\ process_transaction(State, r) = State
                       IN  failed(fill_orders(State, t, <<g, f>>))

\* both grids are live; a fill of grid 1 through its own accounts succeeds, the
\* same fill through the base vault of grid 2 is rejected, and so is a batch
\* whose first target has already moved funds
C27_Witness ==
    /\ grids[1].written /\ grids[2].written
    /\ is_active(grids[1]) /\ is_active(grids[2])
    /\ tokens.vault_base[2] >= 30
    /\ LET good == FillTarget(1, 1, 0, 0, 0, 30)
           bad == [good EXCEPT !.accts.base_vault = 2]
           two == fill_orders(State, "taker", <<FillTarget(2, 2, 0, 0, 0, 30), bad>>)
       IN  /\ fill_order(State, "taker", good).err = "Ok"
           /\ fill_order(State, "taker", bad).err = "InvalidInstruction"
           /\ two.err = "InvalidInstruction"
           /\ two.tokens # tokens

\* C28: a step that creates grid 1 sets its fee_bps to the oneshot protocol fee
\* the Config held before the step when the grid is oneshot and to the
\* parameter fee_bps otherwise; every other step (fills, cancels, withdrawals,
\* admin settings) leaves the fee_bps of the grid as it was.
C28_FeeBpsFixed ==
    [][IF last'.op = "CreateGrid" /\ steps' # steps
       THEN grids'[1].fee_bps = IF last'.fills[1].oneshot
                                THEN config.oneshot_protocol_fee_bps
                                ELSE last'.fills[1].fee_bps
       ELSE grids'[1].fee_bps = grids[1].fee_bps]_vars

\* a oneshot grid created with fee_bps 1000 in its parameters while the oneshot
\* protocol fee was 700 has been filled after the admin raised that fee to 1000
C28_Witness ==
    /\ last.op = "FillOrder"
    /\ grids[1].oneshot
    /\ grids[1].fee_bps = 700
    /\ config.oneshot_protocol_fee_bps = 1000
    /\ last.out.total_fee = calc_fee_u64(last.out.quote_gross, 700)
    /\ last.out.total_fee > 0

\* the balances t after taker u has paid base_in base and quote_in quote into
\* the vaults of grid 1 and received base_out base and quote_out quote from them
Traded(t, u, quote_in, base_out, base_in, quote_out) ==
    [t EXCEPT !.user_quote[u] = @ - quote_in + quote_out,
              !.vault_quote[1] = @ + quote_in - quote_out,
              !.user_base[u] = @ + base_out - base_in,
              !.vault_base[1] = @ - base_out + base_in]

\* the balances t after the fill of target f by taker u with amounts o
Settled(t, u, f, o) ==
    IF f.side = 0
    THEN Traded(t, u, o.quote_gross + o.total_fee, o.fill_base, 0, 0)
    ELSE Traded(t, u, 0, 0, o.fill_base, o.quote_gross - o.total_fee)

\* C29: a step that is a successful FillOrder with amounts fill_base,
\* quote_gross, total_fee and protocol_fee moves, on a Buy, quote_gross +
\* total_fee from the taker to the quote vault and fill_base from the base vault
\* to the taker, and on a Sell fill_base from the taker to the base vault and
\* quote_gross - total_fee from the quote vault to the taker; no other balance
\* changes, and protocol_fees_quote of the grid grows by protocol_fee.  A
\* successful FillOrders of two targets moves and books what its two fills,
\* one after the other, compute.
C29_FillMovesWhatItBooks ==
    [][/\ (last'.op = "FillOrder" /\ steps' # steps) =>
              LET o == last'.out
                  f == last'.fills[1]
              IN  /\ f.side = 1 => o.quote_gross >= o.total_fee
                  /\ tokens' = Settled(tokens, last'.signer, f, o)
                  /\ grids'[1].protocol_fees_quote =
                         grids[1].protocol_fees_quote + o.protocol_fee
       /\ (last'.op = "FillOrders" /\ steps' # steps) =>
              LET u == last'.signer
                  fs == last'.fills
                  second(r1) ==
                      LET then(r2) ==
                              /\ r1.err = "Ok" /\ r2.err = "Ok"
                              /\ tokens' = Settled(Settled(tokens, u, fs[1], r1.out),
                                                   u, fs[2], r2.out)
                              /\ grids'[1].protocol_fees_quote =
                                     grids[1].protocol_fees_quote
                                     + r1.out.protocol_fee + r2.out.protocol_fee
                      IN  then(fill_order(process_transaction(State, r1), u, fs[2]))
              IN  second(fill_order(State, u, fs[1]))]_vars

\* the taker has bought 100 base from the second ask (price 1.1, fee 10 %) for
\* 110 + 11 and sold them back at its reverse price 1.0 for 100 - 10; the grid
\* has booked a protocol fee of 1 on each fill
C29_Witness ==
    /\ last.op = "FillOrder"
    /\ last.fills[1].side = 1 /\ last.fills[1].order_side = 0
    /\ last.out.fill_base = 100 /\ last.out.quote_gross = 100
    /\ last.out.total_fee = 10 /\ last.out.protocol_fee = 1
    /\ tokens.user_quote["taker"] = TakerFunds - 121 + 90
    /\ tokens.user_base["taker"] = TakerFunds
    /\ grids[1].protocol_fees_quote = 2

\* no slot of the forward inventories of g is larger in h
NoRefill(g, h) ==
    /\ \A i \in DOMAIN g.ask_remaining \cap DOMAIN h.ask_remaining :
           h.ask_remaining[i] <= g.ask_remaining[i]
    /\ \A i \in DOMAIN g.bid_remaining_quote \cap DOMAIN h.bid_remaining_quote :
           h.bid_remaining_quote[i] <= g.bid_remaining_quote[i]

\* C30: whatever the call, no step increases ask_remaining[i] or
\* bid_remaining_quote[i] of a grid record that is oneshot before and after it.
C30_OneshotNeverRefilled ==
    [][(grids[1].written /\ grids[1].oneshot /\ grids'[1].oneshot) =>
           NoRefill(grids[1], grids'[1])]_vars

\* a call r that returned the error code and left the accounts as they were
RejectedWith(code, r) ==
    /\ r.err = code
    /\ r.grids = grids /\ r.tokens = tokens /\ r.config = config
    /\ process_transaction(State, r) = State

\* every fill of the Canceled grid 1, as a FillOrder, as the only target of a
\* FillOrders and as the first of two, is rejected with the code
CanceledFillsRejected(code) ==
    (grids[1].written /\ ~is_active(grids[1])) =>
        \A t \in Takers, f \in FillTargets({1}) :
            /\ RejectedWith(code, fill_order(State, t, f))
            /\ RejectedWith(code, fill_orders(State, t, <<f>>))
            /\ RejectedWith(code, fill_orders(State, t, <<f, FillTarget(1, 1, 0, 0, 0, 30)>>))

\* C31 as stated: every fill that names a Canceled grid is rejected with
\* GridCanceled, whatever the case, slot and amount, and nothing changes.
C31_AsStated == CanceledFillsRejected("GridCanceled")

\* C31: while the program is not paused, every fill that names a Canceled grid
\* is rejected with GridCanceled, whatever the case, slot and amount; while it
\* is paused the rejection is Paused; in both cases no Grid and no balance
\* changes.
C31_CanceledGridRejectsFills ==
    CanceledFillsRejected(IF config.paused THEN "Paused" ELSE "GridCanceled")

\* a grid that sold base and was then canceled keeps the protocol fee in its
\* quote vault; a Buy of its first ask is rejected with GridCanceled
C31_Witness ==
    /\ last.op = "CancelGrid"
    /\ grids[1].status = 1
    /\ ~config.paused
    /\ tokens.vault_quote[1] > 0
    /\ fill_order(State, "taker", FillTarget(1, 1, 0, 0, 0, 30)).err = "GridCanceled"

\* credits (quote_gross, maker_fee) a Buy may bring: nothing, one unit, less
\* than a slot's quota, more than it
Credits == { <<0, 0>>, <<1, 0>>, <<50, 5>>, <<200, 20>> }

\* the credit of quote_gross + maker_fee to a slot that held slot and holds
\* slot2 afterwards, profits going from profits to profits2: slot2 is the
\* tentative balance cut at the cap and profits takes the rest
CapThenOverflow(slot, profits, quote_gross, maker_fee, cap, slot2, profits2) ==
    LET t == slot + quote_gross + maker_fee
    IN  /\ slot2 = Min(t, cap)
        /\ profits2 = profits + (t - slot2)
        /\ slot2 + profits2 = slot + profits + quote_gross + maker_fee

\* C32: a successful Buy x Ask (Buy x Bid) FillOrder on a non-compound grid
\* leaves ask_reverse_quote[idx] (bid_remaining_quote[idx]) at min(t, cap) with
\* t the balance before plus quote_gross + maker_fee and cap one slot's notional
\* at ask_rev_prices[idx] (bid_prices[idx]), and adds t - min(t, cap) to
\* profits_quote; and from the state the step reaches, the two bookkeeping
\* functions do the same for every slot and every credit of Credits.
C32_CapThenOverflow ==
    [][(grids'[1].written /\ ~grids'[1].compound /\ steps' # steps) =>
           /\ (last'.op = "FillOrder" /\ last'.fills[1].side = 0) =>
                  LET g == grids[1]
                      h == grids'[1]
                      o == last'.out
                      i == last'.fills[1].order_index + 1
                  IN  IF last'.fills[1].order_side = 0
                      THEN CapThenOverflow(g.ask_reverse_quote[i], g.profits_quote,
                                           o.quote_gross, o.maker_fee,
                                           Notional(g, g.ask_rev_prices[i]),
                                           h.ask_reverse_quote[i], h.profits_quote)
                      ELSE CapThenOverflow(g.bid_remaining_quote[i], g.profits_quote,
                                           o.quote_gross, o.maker_fee,
                                           Notional(g, g.bid_prices[i]),
                                           h.bid_remaining_quote[i], h.profits_quote)
           /\ \A c \in Credits :
                  LET h == grids'[1]
                  IN  /\ \A i \in DOMAIN h.ask_reverse_quote :
                             LET same(b) ==
                                     /\ b.err = "Ok"
                                     /\ CapThenOverflow(h.ask_reverse_quote[i], h.profits_quote,
                                                        c[1], c[2],
                                                        Notional(h, h.ask_rev_prices[i]),
                                                        b.grid.ask_reverse_quote[i],
                                                        b.grid.profits_quote)
                             IN  same(apply_ask_bookkeeping(h, i - 1, 0, c[1], c[2],
                                                            h.ask_rev_prices[i]))
                      /\ \A i \in DOMAIN h.bid_remaining_quote :
                             LET same(b) ==
                                     /\ b.err = "Ok"
                                     /\ CapThenOverflow(h.bid_remaining_quote[i], h.profits_quote,
                                                        c[1], c[2],
                                                        Notional(h, h.bid_prices[i]),
                                                        b.grid.bid_remaining_quote[i],
                                                        b.grid.profits_quote)
                             IN  same(apply_bid_reverse_bookkeeping(h, i - 1, 0, c[1], c[2],
                                                                    h.bid_prices[i]))]_vars

\* the first fill of a fresh grid bought 100 base from the second ask for 110
\* with a maker fee of 10: the reverse slot stands at its quota 100 and the
\* other 20 are profits
C32_Witness ==
    /\ steps = 2
    /\ last.op = "FillOrder"
    /\ last.fills[1].side = 0 /\ last.fills[1].order_side = 0 /\ last.fills[1].order_index = 1
    /\ ~grids[1].compound
    /\ last.out.quote_gross = 110 /\ last.out.maker_fee = 10
    /\ grids[1].ask_reverse_quote[2] = 100
    /\ grids[1].profits_quote = 20

\* the vaults of grid k hold exactly what its record accounts for
LedgerEqualsVaults(t, g, k) ==
    /\ t.vault_base[k] = BaseLedger(g)
    /\ t.vault_quote[k] = QuoteLedger(g)

\* C33: for a grid created on an unused account with empty vaults, after every
\* successful call the base vault holds sum(ask_remaining) +
\* sum(bid_reverse_base) and the quote vault holds sum(ask_reverse_quote) +
\* sum(bid_remaining_quote) + profits_quote + protocol_fees_quote; once the
\* grid is Canceled the base vault is empty and the quote vault holds the
\* protocol fees only, and a WithdrawProtocolFees of everything by the admin
\* leaves both vaults at 0.
C33_LedgerEqualsVaults ==
    /\ LedgerEqualsVaults(tokens, grids[1], 1)
    /\ (grids[1].written /\ grids[1].status = 1) =>
           /\ tokens.vault_base[1] = 0
           /\ tokens.vault_quote[1] = grids[1].protocol_fees_quote
           /\ LET emptied(r) ==
                      IF grids[1].protocol_fees_quote = 0 THEN r.err = "NoProfits"
                      ELSE /\ r.err = "Ok"
                           /\ r.tokens.vault_base[1] = 0
                           /\ r.tokens.vault_quote[1] = 0
                           /\ r.tokens.user_quote[config.admin] =
                                  tokens.user_quote[config.admin] + grids[1].protocol_fees_quote
              IN  emptied(withdraw_protocol_fees(State, config.admin, 1, Accts(1), 0))

\* a grid was filled with a fee whose protocol share was rounded down, then
\* canceled: the quote vault holds the protocol fee and nothing else
C33_Witness ==
    /\ last.op = "CancelGrid"
    /\ grids[1].status = 1
    /\ grids[1].protocol_fees_quote > 0
    /\ tokens.vault_quote[1] = grids[1].protocol_fees_quote
    /\ tokens.vault_base[1] = 0
    /\ tokens.user_quote["owner"] + tokens.user_quote["taker"] + tokens.vault_quote[1]
           = OwnerFunds + TakerFunds

\* C34: after every successful FillOrder, whatever its case, the fill_base and
\* the quote_gross it computed are both positive.
C34_NoFreeFill ==
    (last.op = "FillOrder" /\ last.err = "Ok") =>
        last.out.fill_base > 0 /\ last.out.quote_gross > 0

\* C35: after every successful Sell FillOrder the quote_gross the grid paid is
\* at most floor(fill_base * p / 1e9), p being bid_prices[idx] for Sell x Bid
\* and ask_rev_prices[idx] for Sell x Ask.
C35_NeverBuysAbovePrice ==
    (last.op = "FillOrder" /\ last.fills[1].side = 1) =>
        LET f == last.fills[1]
            price == IF f.order_side = 1 THEN grids[1].bid_prices[f.order_index + 1]
                     ELSE grids[1].ask_rev_prices[f.order_index + 1]
        IN  last.out.quote_gross <= MulDivFloor(last.out.fill_base, price, PRICE_SCALE)

\* C36: a compound grid has profits_quote = 0 in every reachable state; a
\* WithdrawProfits by its owner, whatever the amount, is rejected with NoProfits
\* and changes nothing; and while the grid is Active its owner's CancelGrid pays
\* out every quote slot in full, maker fees included.
C36_CompoundNoProfits ==
    (grids[1].written /\ grids[1].compound) =>
        /\ grids[1].profits_quote = 0
        /\ \A amount \in AmountsAsked :
               RejectedWith("NoProfits",
                            withdraw_profits(State, grids[1].owner, 1, Accts(1), amount))
        /\ is_active(grids[1]) =>
               LET paid(r) ==
                       /\ r.err = "Ok"
                       /\ r.tokens.user_quote[grids[1].owner] =
                              tokens.user_quote[grids[1].owner]
                              + SumSeq(grids[1].ask_reverse_quote)
                              + SumSeq(grids[1].bid_remaining_quote)
               IN  paid(cancel_grid(State, grids[1].owner, 1, Accts(1)))

\* a Buy of 100 base from the second ask of a compound grid: the 110 paid and
\* the maker fee of 10 both sit in the reverse slot, above one slot's quota of
\* 100, and profits_quote is 0
C36_Witness ==
    /\ last.op = "FillOrder"
    /\ grids[1].compound
    /\ last.out.maker_fee = 10
    /\ grids[1].ask_reverse_quote[2] = 120
    /\ grids[1].profits_quote = 0
    /\ withdraw_profits(State, "owner", 1, Accts(1), 0).err = "NoProfits"

\* CreateGrid parameters that fail one of the checks create_grid makes on them
\* before it reads the Config
Malformed ==
    { [GridParams(1000, FALSE, FALSE) EXCEPT !.fee_bps = MAX_FEE_BPS + 1],
      [GridParams(1000, FALSE, FALSE) EXCEPT !.base_amount_per_order = 0],
      [GridParams(1000, FALSE, FALSE) EXCEPT !.ask_count = 0, !.bid_count = 0],
      [GridParams(1000, FALSE, FALSE) EXCEPT !.ask_count = MAX_ORDERS_PER_SIDE + 1] }

\* parameters that pass those checks, one of them with a ladder that
\* build_side_prices would refuse
Wellformed ==
    CreateParams \cup { [GridParams(1000, FALSE, FALSE) EXCEPT !.ask_strategy = Linear(0)] }

\* the entry calls whose parameters pass the checks made before the pause
\* check are all rejected with Paused
EntryBlocked ==
    /\ \A o \in Users, p \in Wellformed :
           RejectedWith("Paused", create_grid(State, o, 1, Accts(1), p))
    /\ \A t \in Users, f \in FillTargets({1}) :
           /\ RejectedWith("Paused", fill_order(State, t, f))
           /\ RejectedWith("Paused", fill_orders(State, t, <<f>>))
    /\ \A t \in Users, fs \in Batches({1}) :
           RejectedWith("Paused", fill_orders(State, t, fs))

\* the entry calls with malformed parameters, rejected with Paused too
MalformedBlocked ==
    /\ \A o \in Users, p \in Malformed :
           RejectedWith("Paused", create_grid(State, o, 1, Accts(1), p))
    /\ \A t \in Users :
           /\ RejectedWith("Paused", fill_order(State, t, FillTarget(1, 1, 0, 0, 0, 0)))
           /\ RejectedWith("Paused", fill_orders(State, t, <<>>))

\* what the parameter checks answer to them
MalformedRejected ==
    /\ \A o \in Users, p \in Malformed :
           LET r == create_grid(State, o, 1, Accts(1), p)
           IN  r.err \in {"InvalidFee", "ZeroAmount", "InvalidOrderCount"}
               /\ RejectedWith(r.err, r)
    /\ \A t \in Users :
           /\ RejectedWith("ZeroAmount", fill_order(State, t, FillTarget(1, 1, 0, 0, 0, 0)))
           /\ RejectedWith("InvalidOrderCount", fill_orders(State, t, <<>>))

\* the state with the pause lifted, and a result with the pause put back
Unpaused == [State EXCEPT !.config.paused = FALSE]

Repaused(r) == [r EXCEPT !.config.paused = TRUE]

\* every exit call returns, paused, what it returns with the pause lifted: the
\* same code, the same grids and balances
ExitUnaffected ==
    \A u \in Users :
        /\ \A side \in {0, 1}, idx \in SlotIndices :
               cancel_order(State, u, 1, Accts(1), side, idx)
                   = Repaused(cancel_order(Unpaused, u, 1, Accts(1), side, idx))
        /\ cancel_grid(State, u, 1, Accts(1)) = Repaused(cancel_grid(Unpaused, u, 1, Accts(1)))
        /\ \A amount \in AmountsAsked :
               /\ withdraw_profits(State, u, 1, Accts(1), amount)
                      = Repaused(withdraw_profits(Unpaused, u, 1, Accts(1), amount))
               /\ withdraw_protocol_fees(State, u, 1, Accts(1), amount)
                      = Repaused(withdraw_protocol_fees(Unpaused, u, 1, Accts(1), amount))

\* C37 as stated: while the program is paused every CreateGrid, FillOrder and
\* FillOrders, whatever its parameters, is rejected with Paused and changes
\* nothing, and the four exit calls behave as when unpaused.
C37_AsStated ==
    config.paused => EntryBlocked /\ MalformedBlocked /\ ExitUnaffected

\* C37: while the program is paused every CreateGrid, FillOrder and FillOrders
\* whose parameters pass the checks made before the Config is read is rejected
\* with Paused, the others are rejected by those checks (InvalidFee, ZeroAmount,
\* InvalidOrderCount), none changes anything; CancelOrder, CancelGrid,
\* WithdrawProfits and WithdrawProtocolFees return the same code, grids and
\* balances as with the pause lifted.
C37_PauseBlocksEntryOnly ==
    config.paused => EntryBlocked /\ MalformedRejected /\ ExitUnaffected

\* the program was paused after a fill: the owner can cancel the grid and get
\* the funds back while a further fill is refused
C37_Witness ==
    /\ config.paused
    /\ last.op = "SetPause"
    /\ is_active(grids[1])
    /\ grids[1].profits_quote > 0
    /\ fill_order(State, "taker", FillTarget(1, 1, 0, 0, 0, 30)).err = "Paused"
    /\ cancel_grid(State, "owner", 1, Accts(1)).err = "Ok"
    /\ withdraw_profits(State, "owner", 1, Accts(1), 0).err = "Ok"

\* the targets of a batch run one after the other as single FillOrder
\* transactions, each on the state the one before committed
RECURSIVE RunSingly(_, _, _)
RunSingly(st, taker, fills) ==
    IF fills = <<>> THEN [ok |-> TRUE, st |-> st]
    ELSE LET next(r) ==
                 IF r.err # "Ok" THEN [ok |-> FALSE, st |-> st]
                 ELSE RunSingly(process_transaction(st, r), taker, Tail(fills))
         IN  next(fill_order(st, taker, Head(fills)))

\* C38: a step that is a successful FillOrders leaves the Config, every Grid
\* and every balance as its targets, run in list order as single FillOrder
\* calls by the same taker, all succeed and leave them.
C38_BatchAsSingles ==
    [][(last'.op = "FillOrders" /\ steps' # steps) =>
           LET same(s) ==
                   /\ s.ok
                   /\ s.st = [config |-> config', grids |-> grids', tokens |-> tokens']
           IN  same(RunSingly(State, last'.signer, last'.fills))]_vars

\* a batch of two Buys of 30 base from the first ask of grid 1 has gone
\* through: the second was filled from what the first had left
C38_Witness ==
    /\ last.op = "FillOrders"
    /\ last.fills[1] = FillTarget(1, 1, 0, 0, 0, 30)
    /\ last.fills[2] = FillTarget(1, 1, 0, 0, 0, 30)
    /\ grids[1].ask_remaining[1] = grids[1].base_amount_per_order - 60
    /\ tokens.user_base["taker"] = TakerFunds + 60

\* what identifies a grid and its orders: owner, id, vaults and signer, the
\* mode flags, the order size, the four price ladders and the number of slots
\* of each per-slot array
Shape(g) ==
    [written |-> g.written, owner |-> g.owner, id |-> g.id,
     base_vault |-> g.base_vault, quote_vault |-> g.quote_vault, signer |-> g.signer,
     compound |-> g.compound, oneshot |-> g.oneshot,
     base_amount_per_order |-> g.base_amount_per_order,
     ask_prices |-> g.ask_prices, ask_rev_prices |-> g.ask_rev_prices,
     bid_prices |-> g.bid_prices, bid_rev_prices |-> g.bid_rev_prices,
     slots |-> <<Len(g.ask_remaining), Len(g.ask_reverse_quote),
                 Len(g.bid_remaining_quote), Len(g.bid_reverse_base)>>]

\* C39: every step other than a CreateGrid (fills, batches, cancels,
\* withdrawals, admin calls) leaves the shape of the grid as it was, and in
\* every state each per-slot array of a side is as long as that side's ladder.
C39_ShapeFixed ==
    [][/\ ~(last'.op = "CreateGrid" /\ steps' # steps) => Shape(grids'[1]) = Shape(grids[1])
       /\ LET h == grids'[1]
          IN  /\ Len(h.ask_remaining) = Len(h.ask_prices)
              /\ Len(h.ask_reverse_quote) = Len(h.ask_prices)
              /\ Len(h.ask_rev_prices) = Len(h.ask_prices)
              /\ Len(h.bid_remaining_quote) = Len(h.bid_prices)
              /\ Len(h.bid_reverse_base) = Len(h.bid_prices)
              /\ Len(h.bid_rev_prices) = Len(h.bid_prices)]_vars

\* a grid was filled and then canceled: its inventories are all 0 and its two
\* asks and one bid are still there
C39_Witness ==
    /\ last.op = "CancelGrid"
    /\ grids[1].status = 1
    /\ grids[1].protocol_fees_quote > 0
    /\ grids[1].ask_remaining = <<0, 0>>
    /\ grids[1].bid_remaining_quote = <<0>>
    /\ grids[1].ask_prices = <<PRICE_SCALE, 11 * (PRICE_SCALE \div 10)>>

====
